---- MODULE Spec2Model ----
(***************************************************************************)
(* FON (Fast Object Notation), native library FON.Native.                  *)
(*                                                                         *)
(* Characters and bytes are their codes 0..255; a std::string, a           *)
(* std::string_view and a std::vector<uint8_t> are sequences of codes.     *)
(* C++ indexes from 0 and TLA+ from 1: s[i] of the source is s[i + 1] here.*)
(* A uint32_t word is the tuple of its four bytes, most significant first, *)
(* so that the arithmetic of the codec is exact modulo 2^32.               *)
(*                                                                         *)
(* The module holds several specifications over one set of variables:      *)
(*   SpecCodec   one RawData object under pack() and unpack()              *)
(*   SpecText    serialize_string, then parse_string of its output         *)
(*   SpecRecord  a record built by add, serialize_to_string, then          *)
(*               deserialize_line of its output                            *)
(*   SpecLine    deserialize_line of an arbitrary line, well formed or not *)
(*   SpecSave    one call of serialize_to_file, the calling thread and its *)
(*               worker tasks interleaved                                  *)
(*   SpecLoad    one call of deserialize_from_file, likewise               *)
(*   SpecParallel  one call of either                                      *)
(*   SpecLoadAny   deserialize_from_file on a file of any content          *)
(*   SpecArray   one call of parse_array, iteration by iteration           *)
(*   SpecSaveLoad  serialize_to_file, then deserialize_from_file of the    *)
(*               file written                                              *)
(*   SpecAnyHost   one call of either, hardware_concurrency() from 0 on    *)
(* Those of the file functions model the build without _MSC_VER           *)
(* (std::async); all but SpecAnyHost are on a host whose                   *)
(* hardware_concurrency() is at least 1.                                   *)
(***************************************************************************)
EXTENDS Integers, Sequences, FiniteSets, TLC

VARIABLES
    data_,      \* RawData::data_      (fon_types.hpp:79)
    encoded_,   \* RawData::encoded_   (fon_types.hpp:80)
    origin,     \* how the RawData was constructed, and from what
    ops,        \* the member calls made on it so far, in order
    threw,      \* TRUE when the last member call ended in an exception
    input,      \* the argument of the function under test
    wire,       \* the text the serializer produced for it
    result,     \* what the parser returned for that text
    stage,      \* "build", "start", "serialized", "parsed"
    deserialize_raw_unpack, \* Fon::deserialize_raw_unpack (fon.hpp:25)
    mode,       \* "save": serialize_to_file, "load": deserialize_from_file
    pc,         \* where the calling thread is in that function
    max_threads,\* its parameter, then its local after the first statement
    dump,       \* the FonDump: id -> collection (argument of save, result of load)
    heap,       \* the RawData objects the dump's shared_ptr values point to
    heap0,      \* heap as it was when the call began
    entries,    \* save: the records of the dump sorted by id (fon.hpp:78)
    lines,      \* save: the output buffer (fon.hpp:87); load: the lines (fon.hpp:317)
    collections,\* load: the output buffer (fon.hpp:336)
    file,       \* the content of the file at path
    futures,    \* one record per task launched, in launch order
    got,        \* how many futures the f.get() loop has passed
    raised,     \* the exception leaving the function
    faults,     \* failures the environment may still cause (allocation, thread start)
    log,        \* the accesses worker tasks made to memory shared between threads
    finished    \* the tasks in the order they ended

codecVars == <<data_, encoded_, origin, ops, threw>>
fnVars == <<input, wire, result, stage>>
parVars == <<mode, pc, max_threads, dump, heap, heap0, entries, lines, collections,
             file, futures, got, raised, faults, log, finished>>
vars == <<codecVars, fnVars, deserialize_raw_unpack, parVars>>

----------------------------------------------------------------------------
(* Bounds of the model.                                                    *)

MaxBytes == 5       \* longest byte vector a RawData is constructed from
MaxEnc == 6         \* longest encoded text a RawData is constructed from
MaxOps == 3         \* member calls made on one RawData
MaxText == 3        \* longest text value drawn from TextChars
MaxEntries == 2     \* entries of a record
MaxValue == 3       \* longest value text of a line drawn from ValueChars
MaxHw == 2          \* largest value of hardware_concurrency()
MaxThreads == 3     \* largest max_threads argument
MaxRecords == 2     \* records of a dump that is saved
MaxLines == 3       \* pieces a loaded file is made of
MaxFaults == 1      \* failures the environment causes during one call
MaxContent == 5     \* characters of a loaded file of any content

----------------------------------------------------------------------------
(* Sequences.                                                              *)

SeqsUpTo(S, n) == UNION {[1..k -> S] : k \in 0..n}

Min(a, b) == IF a < b THEN a ELSE b

Zeros(n) == [k \in 1..n |-> 0]

----------------------------------------------------------------------------
(* raw_data.cpp: the padded Z85 codec.                                     *)

BASE == 85

z85_encode ==
    << 48, 49, 50, 51, 52, 53, 54, 55, 56, 57, 97, 98, 99, 100, 101, 102, 103,
       104, 105, 106, 107, 108, 109, 110, 111, 112, 113, 114, 115, 116, 117, 118, 119, 120,
       121, 122, 65, 66, 67, 68, 69, 70, 71, 72, 73, 74, 75, 76, 77, 78, 79,
       80, 81, 82, 83, 84, 85, 86, 87, 88, 89, 90, 46, 45, 58, 43, 61, 94,
       33, 47, 42, 63, 38, 60, 62, 40, 41, 91, 93, 123, 125, 64, 37, 36, 35 >>

z85_decode ==
    << 255, 68, 255, 84, 83, 82, 72, 255, 75, 76, 70, 65, 255, 63, 62, 69,
       0, 1, 2, 3, 4, 5, 6, 7, 8, 9, 64, 255, 73, 66, 74, 71,
       81, 36, 37, 38, 39, 40, 41, 42, 43, 44, 45, 46, 47, 48, 49, 50,
       51, 52, 53, 54, 55, 56, 57, 58, 59, 60, 61, 77, 255, 78, 67, 255,
       255, 10, 11, 12, 13, 14, 15, 16, 17, 18, 19, 20, 21, 22, 23, 24,
       25, 26, 27, 28, 29, 30, 31, 32, 33, 34, 35, 79, 255, 80, 255, 255 >>

\* value % 85 and value / 85 of a uint32_t word, by long division of its bytes.
WordDivMod(w) ==
    LET c1 == w[1]
        c2 == (c1 % BASE) * 256 + w[2]
        c3 == (c2 % BASE) * 256 + w[3]
        c4 == (c3 % BASE) * 256 + w[4]
    IN  [quot |-> <<c1 \div BASE, c2 \div BASE, c3 \div BASE, c4 \div BASE>>,
         rem  |-> c4 % BASE]

\* The five assignments of one group: the remainders of four divisions fill
\* positions 4, 3, 2, 1 and what is left of the value indexes position 0.
EncodeWord(w) ==
    LET s1 == WordDivMod(w)
        s2 == WordDivMod(s1.quot)
        s3 == WordDivMod(s2.quot)
        s4 == WordDivMod(s3.quot)
    IN  << z85_encode[s4.quot[4] + 1], z85_encode[s4.rem + 1],
           z85_encode[s3.rem + 1], z85_encode[s2.rem + 1], z85_encode[s1.rem + 1] >>

\* value * 85 + decoded in uint32_t arithmetic: the carry out of the top byte
\* is lost.
WordMulAdd(w, decoded) ==
    LET t4 == w[4] * BASE + decoded
        t3 == w[3] * BASE + (t4 \div 256)
        t2 == w[2] * BASE + (t3 \div 256)
        t1 == w[1] * BASE + (t2 \div 256)
    IN  <<t1 % 256, t2 % 256, t3 % 256, t4 % 256>>

\* The text pack() leaves in encoded_ for a non-empty data_.
RECURSIVE PackBlocks(_, _)
PackBlocks(d, i) ==
    IF i * 4 + 4 > Len(d) THEN <<>>
    ELSE EncodeWord(<<d[i * 4 + 1], d[i * 4 + 2], d[i * 4 + 3], d[i * 4 + 4]>>)
            \o PackBlocks(d, i + 1)

PackText(d) ==
    LET input_len == Len(d)
        padding == (4 - (input_len % 4)) % 4
        full_blocks == input_len \div 4
        remaining == input_len % 4
        offset == full_blocks * 4
        last == [k \in 1..4 |-> IF k <= remaining THEN d[offset + k] ELSE 0]
    IN  PackBlocks(d, 0)
            \o (IF remaining > 0 THEN EncodeWord(last) \o <<48 + padding>> ELSE <<>>)

\* A pack() without the guard of its first statement: it encodes whatever
\* data_ holds over encoded_.
packUnguarded(d, e) == [data_ |-> <<>>, encoded_ |-> PackText(d), threw |-> FALSE]

\* RawData::pack
pack(d, e) ==
    IF e # <<>> \/ d = <<>>
    THEN [data_ |-> d, encoded_ |-> e, threw |-> FALSE]
    ELSE [data_ |-> <<>>, encoded_ |-> PackText(d), threw |-> FALSE]

\* encoded_[k] for 0 <= k <= size(): the element at size() is the terminator.
CharAt(e, k) == IF k < Len(e) THEN e[k + 1] ELSE 0

\* One 5-character group starting at i: the decoded word, or the failure.
RECURSIVE DecodeGroup(_, _, _, _)
DecodeGroup(e, i, j, value) ==
    IF j = 5 THEN [ok |-> TRUE, value |-> value]
    ELSE LET c == CharAt(e, i + j)
         IN  IF c < 32 \/ c > 127 THEN [ok |-> FALSE, value |-> value]
             ELSE IF z85_decode[c - 32 + 1] = 255 THEN [ok |-> FALSE, value |-> value]
             ELSE DecodeGroup(e, i, j + 1, WordMulAdd(value, z85_decode[c - 32 + 1]))

\* The loop of unpack() from group i on, data_ already resized to output_len
\* (buf) and write_pos bytes written.
RECURSIVE UnpackLoop(_, _, _, _, _)
UnpackLoop(e, len, i, buf, write_pos) ==
    IF i >= len THEN [data_ |-> buf, encoded_ |-> <<>>, threw |-> FALSE]
    ELSE LET g == DecodeGroup(e, i, 0, <<0, 0, 0, 0>>)
             n == Min(4, Len(buf) - write_pos)
             out == [k \in 1..Len(buf) |->
                        IF k > write_pos /\ k <= write_pos + n
                        THEN g.value[k - write_pos] ELSE buf[k]]
         IN  IF ~g.ok THEN [data_ |-> buf, encoded_ |-> e, threw |-> TRUE]
             ELSE UnpackLoop(e, len, i + 5, out, write_pos + n)

unpack(d, e) ==
    IF d # <<>> \/ e = <<>>
    THEN [data_ |-> d, encoded_ |-> e, threw |-> FALSE]
    ELSE LET last == e[Len(e)]
             has_padding == last >= 49 /\ last <= 51
             padding == IF has_padding THEN last - 48 ELSE 0
             len == IF has_padding THEN Len(e) - 1 ELSE Len(e)
             output_len == (len \div 5) * 4 - padding
         IN  IF output_len < 0
             \* size_t wraps to a length above max_size(): resize() throws
             \* std::length_error and changes nothing.
             THEN [data_ |-> d, encoded_ |-> e, threw |-> TRUE]
             ELSE UnpackLoop(e, len, 0, Zeros(output_len), 0)

----------------------------------------------------------------------------
(* fon_types.hpp: type codes; fon.hpp: the characters of the grammar.      *)

TYPE_BYTE == 101
TYPE_SHORT == 116
TYPE_INT == 105
TYPE_UINT == 117
TYPE_LONG == 108
TYPE_ULONG == 103
TYPE_FLOAT == 102
TYPE_DOUBLE == 100
TYPE_BOOL == 98
TYPE_STRING == 115
TYPE_RAW == 114

DQUOTE == 34
BACKSLASH == 92
CH_LF == 10
CH_CR == 13
CH_TAB == 9
CH_BS == 8
CH_FF == 12
COMMA == 44
EQUALS == 61
COLON == 58
LBRACKET == 91
RBRACKET == 93
CH_0 == 48
CH_1 == 49
CH_MINUS == 45
CH_n == 110
CH_r == 114
CH_t == 116
CH_b == 98
CH_f == 102
CH_u == 117
CH_QUESTION == 63

----------------------------------------------------------------------------
(* fon.hpp: quoted strings.                                                *)

\* One digit of "%04X".
HexDigit(n) == IF n < 10 THEN CH_0 + n ELSE 55 + n

\* The switch of serialize_string for one character.
EscapeChar(c) ==
    CASE c = DQUOTE    -> <<BACKSLASH, DQUOTE>>
      [] c = BACKSLASH -> <<BACKSLASH, BACKSLASH>>
      [] c = CH_LF     -> <<BACKSLASH, CH_n>>
      [] c = CH_CR     -> <<BACKSLASH, CH_r>>
      [] c = CH_TAB    -> <<BACKSLASH, CH_t>>
      [] c = CH_BS     -> <<BACKSLASH, CH_b>>
      [] c = CH_FF     -> <<BACKSLASH, CH_f>>
      [] OTHER -> IF c < 32
                  THEN <<BACKSLASH, CH_u, CH_0, CH_0, HexDigit(c \div 16), HexDigit(c % 16)>>
                  ELSE <<c>>

RECURSIVE EscapeFrom(_, _)
EscapeFrom(str, i) ==
    IF i > Len(str) THEN <<>> ELSE EscapeChar(str[i]) \o EscapeFrom(str, i + 1)

\* What serialize_string appends to out.
serialize_string(str) == <<DQUOTE>> \o EscapeFrom(str, 1) \o <<DQUOTE>>

\* The scan for the closing quote; end_quote is the C++ index.
RECURSIVE FindEndQuote(_, _)
FindEndQuote(data, end_quote) ==
    IF end_quote >= Len(data) THEN end_quote
    ELSE IF data[end_quote + 1] = DQUOTE /\ data[end_quote] # BACKSLASH THEN end_quote
    ELSE FindEndQuote(data, end_quote + 1)

\* The escape-expanding loop of parse_string; i is the C++ index.
RECURSIVE Unescape(_, _)
Unescape(content, i) ==
    IF i >= Len(content) THEN <<>>
    ELSE IF content[i + 1] = BACKSLASH /\ i + 1 < Len(content)
    THEN LET c == content[i + 2]
             r == CASE c = DQUOTE    -> DQUOTE
                    [] c = BACKSLASH -> BACKSLASH
                    [] c = CH_n      -> CH_LF
                    [] c = CH_r      -> CH_CR
                    [] c = CH_t      -> CH_TAB
                    [] c = CH_b      -> CH_BS
                    [] c = CH_f      -> CH_FF
                    [] OTHER         -> c
         IN  <<r>> \o Unescape(content, i + 2)
    ELSE <<content[i + 1]>> \o Unescape(content, i + 1)

HasChar(str, c) == \E k \in 1..Len(str) : str[k] = c

\* consumed, moved past one ',' that follows the value.
SkipComma(data, consumed) ==
    IF consumed < Len(data) /\ data[consumed + 1] = COMMA THEN consumed + 1 ELSE consumed

\* parse_string on a non-empty data: the string and the characters consumed,
\* or the exception.
parse_string(data) ==
    IF data[1] # DQUOTE
    THEN [ok |-> FALSE, value |-> <<>>, consumed |-> 0, ub |-> FALSE]
    ELSE LET end_quote == FindEndQuote(data, 1)
             content == SubSeq(data, 2, end_quote)
         IN  [ok |-> TRUE,
              value |-> IF HasChar(content, BACKSLASH) THEN Unescape(content, 0) ELSE content,
              consumed |-> SkipComma(data, end_quote + 1),
              ub |-> FALSE]

----------------------------------------------------------------------------
(* fon.hpp: numbers.  An integer value is its sign and the decimal digits  *)
(* of its magnitude, most significant first and without leading zeros, so  *)
(* that the 64-bit limits are exact.  float and double values are not in   *)
(* the value domain of this model.                                         *)

IntKinds == {"uint8_t", "int16_t", "int32_t", "uint32_t", "int64_t", "uint64_t"}

\* std::numeric_limits of the integer alternatives of FonValue.
IntLimit(T) ==
    CASE T = "uint8_t"  -> [signed |-> FALSE, max |-> <<2,5,5>>, min |-> <<0>>]
      [] T = "int16_t"  -> [signed |-> TRUE, max |-> <<3,2,7,6,7>>, min |-> <<3,2,7,6,8>>]
      [] T = "int32_t"  -> [signed |-> TRUE, max |-> <<2,1,4,7,4,8,3,6,4,7>>,
                            min |-> <<2,1,4,7,4,8,3,6,4,8>>]
      [] T = "uint32_t" -> [signed |-> FALSE, max |-> <<4,2,9,4,9,6,7,2,9,5>>, min |-> <<0>>]
      [] T = "int64_t"  -> [signed |-> TRUE,
                            max |-> <<9,2,2,3,3,7,2,0,3,6,8,5,4,7,7,5,8,0,7>>,
                            min |-> <<9,2,2,3,3,7,2,0,3,6,8,5,4,7,7,5,8,0,8>>]
      [] T = "uint64_t" -> [signed |-> FALSE,
                            max |-> <<1,8,4,4,6,7,4,4,0,7,3,7,0,9,5,5,1,6,1,5>>, min |-> <<0>>]

\* a <= b for two magnitudes.
MagLE(a, b) ==
    \/ Len(a) < Len(b)
    \/ /\ Len(a) = Len(b)
       /\ \/ a = b
          \/ \E k \in 1..Len(a) : a[k] < b[k] /\ \A j \in 1..(k - 1) : a[j] = b[j]

IsDigit(c) == c >= CH_0 /\ c <= 57

\* The number of decimal digits of data from C++ index i on.
RECURSIVE DigitRun(_, _)
DigitRun(data, i) ==
    IF i < Len(data) /\ IsDigit(data[i + 1]) THEN 1 + DigitRun(data, i + 1) ELSE 0

RECURSIVE StripZeros(_)
StripZeros(digs) ==
    IF Len(digs) > 1 /\ digs[1] = 0 THEN StripZeros(Tail(digs)) ELSE digs

\* std::to_chars of an integer: the shortest decimal numeral.
serialize_number(value) ==
    (IF value.neg THEN <<CH_MINUS>> ELSE <<>>) \o [k \in 1..Len(value.mag) |-> CH_0 + value.mag[k]]

FloatKinds == {"float", "double"}

\* parse_number<float> and parse_number<double>, on texts without '.', '+',
\* white space, exponents and the letters of inf and nan, and of fewer than
\* 39 digits: std::from_chars takes an optional '-' and a run of digits;
\* when there is no digit std::strtof converts nothing and returns 0, and
\* the function reports find_value_end(data) characters.  It never throws.
\* The value is kept as the sign and the digits of the numeral.
parse_float(data, end_pos) ==
    LET minus == Len(data) > 0 /\ data[1] = CH_MINUS
        first == IF minus THEN 1 ELSE 0
        n == DigitRun(data, first)
    IN  IF n = 0
        THEN [ok |-> TRUE, value |-> [neg |-> FALSE, mag |-> <<0>>],
              consumed |-> end_pos, ub |-> FALSE]
        ELSE [ok |-> TRUE,
              value |-> [neg |-> minus,
                         mag |-> StripZeros([k \in 1..n |-> data[first + k] - CH_0])],
              consumed |-> first + n, ub |-> FALSE]

\* std::from_chars of an integer of type T: an optional '-' for a signed T, a
\* run of digits; errc::invalid_argument without a digit, result_out_of_range
\* beyond the limits of T; parse_number throws on either.
parse_integer(T, data) ==
    LET lim == IntLimit(T)
        minus == lim.signed /\ Len(data) > 0 /\ data[1] = CH_MINUS
        first == IF minus THEN 1 ELSE 0
        n == DigitRun(data, first)
        mag == StripZeros([k \in 1..n |-> data[first + k] - CH_0])
    IN  IF n = 0 \/ ~MagLE(mag, IF minus THEN lim.min ELSE lim.max)
        THEN [ok |-> FALSE, value |-> <<>>, consumed |-> 0, ub |-> FALSE]
        ELSE [ok |-> TRUE, value |-> [neg |-> minus /\ mag # <<0>>, mag |-> mag],
              consumed |-> first + n, ub |-> FALSE]

\* The position of the first ',', ']', CR or LF of data, or its length.
find_value_end(data) ==
    LET stops == {i \in 0..(Len(data) - 1) :
                    data[i + 1] \in {COMMA, RBRACKET, CH_CR, CH_LF}}
    IN  IF stops = {} THEN Len(data) ELSE CHOOSE i \in stops : \A j \in stops : i <= j

parse_number(T, data) ==
    IF T \in FloatKinds THEN parse_float(data, find_value_end(data)) ELSE parse_integer(T, data)

----------------------------------------------------------------------------
(* fon.hpp: values.  A FonValue is [kind, v]: kind names the alternative   *)
(* of the variant that is held.  A std::shared_ptr<RawData> holds the two  *)
(* fields of the RawData it points to.                                     *)

VectorOf(T) == "vector<" \o T \o ">"

\* A dispatch that reads every integer tag as a 32-bit int, which the
\* switch of parse_value does not do.
KindOfTagCoerced(type_char) ==
    CASE type_char = TYPE_FLOAT -> "float"
      [] type_char = TYPE_DOUBLE -> "double"
      [] OTHER -> "int32_t"

\* The T of parse_number<T> and parse_array<T> in the case of the tag.
KindOfTag(type_char) ==
    CASE type_char = TYPE_BYTE  -> "uint8_t"
      [] type_char = TYPE_SHORT -> "int16_t"
      [] type_char = TYPE_INT   -> "int32_t"
      [] type_char = TYPE_UINT  -> "uint32_t"
      [] type_char = TYPE_LONG  -> "int64_t"
      [] type_char = TYPE_ULONG -> "uint64_t"
      [] type_char = TYPE_FLOAT -> "float"
      [] type_char = TYPE_DOUBLE -> "double"

get_type_char(value) ==
    CASE value.kind = "uint8_t"  -> TYPE_BYTE
      [] value.kind = "int16_t"  -> TYPE_SHORT
      [] value.kind = "int32_t"  -> TYPE_INT
      [] value.kind = "uint32_t" -> TYPE_UINT
      [] value.kind = "int64_t"  -> TYPE_LONG
      [] value.kind = "uint64_t" -> TYPE_ULONG
      [] value.kind = "float"    -> TYPE_FLOAT
      [] value.kind = "double"   -> TYPE_DOUBLE
      [] value.kind = "bool"     -> TYPE_BOOL
      [] value.kind = "string"   -> TYPE_STRING
      [] value.kind = "raw"      -> TYPE_RAW
      [] value.kind = "vector<float>"    -> TYPE_FLOAT
      [] value.kind = "vector<double>"   -> TYPE_DOUBLE
      [] value.kind = "vector<int32_t>"  -> TYPE_INT
      [] value.kind = "vector<uint8_t>"  -> TYPE_BYTE
      [] value.kind = "vector<int16_t>"  -> TYPE_SHORT
      [] value.kind = "vector<uint32_t>" -> TYPE_UINT
      [] value.kind = "vector<int64_t>"  -> TYPE_LONG
      [] value.kind = "vector<uint64_t>" -> TYPE_ULONG
      [] value.kind = "vector<bool>"     -> TYPE_BOOL
      [] value.kind = "vector<string>"   -> TYPE_STRING
      [] OTHER -> CH_QUESTION

\* '[' + the elements' texts joined by ',' + ']'.
RECURSIVE JoinFrom(_, _)
JoinFrom(texts, i) ==
    IF i > Len(texts) THEN <<>>
    ELSE (IF i > 1 THEN <<COMMA>> ELSE <<>>) \o texts[i] \o JoinFrom(texts, i + 1)

serialize_array(arr) ==
    <<LBRACKET>> \o JoinFrom([k \in 1..Len(arr) |-> serialize_number(arr[k])], 1)
        \o <<RBRACKET>>

BoolChar(v) == <<IF v THEN CH_1 ELSE CH_0>>

\* What serialize_value appends to out.  The raw branch calls pack() on the
\* RawData the value points to.
serialize_value(value) ==
    CASE value.kind \in IntKinds  -> serialize_number(value.v)
      [] value.kind = "bool"      -> BoolChar(value.v)
      [] value.kind = "string"    -> serialize_string(value.v)
      [] value.kind = "raw"       ->
            <<DQUOTE>> \o pack(value.v.data_, value.v.encoded_).encoded_ \o <<DQUOTE>>
      [] value.kind = "vector<bool>"   ->
            <<LBRACKET>> \o JoinFrom([k \in 1..Len(value.v) |-> BoolChar(value.v[k])], 1)
                \o <<RBRACKET>>
      [] value.kind = "vector<string>" ->
            <<LBRACKET>>
                \o JoinFrom([k \in 1..Len(value.v) |-> serialize_string(value.v[k])], 1)
                \o <<RBRACKET>>
      [] OTHER -> serialize_array(value.v)

\* The value after serialize_value: the RawData it points to has been packed.
AfterSerializeValue(value) ==
    IF value.kind = "raw"
    THEN LET r == pack(value.v.data_, value.v.encoded_)
         IN  [kind |-> "raw", v |-> [data_ |-> r.data_, encoded_ |-> r.encoded_]]
    ELSE value

\* A FonCollection is the sequence of its entries [key, value] in the
\* iteration order of its unordered_map; keys are distinct.
serialize_to_string(collection) ==
    LET Entry(e) == e.key \o <<EQUALS, get_type_char(e.value), COLON>> \o serialize_value(e.value)
    IN  JoinFrom([k \in 1..Len(collection) |-> Entry(collection[k])], 1)

AfterSerialize(collection) ==
    [k \in 1..Len(collection) |->
        [key |-> collection[k].key, value |-> AfterSerializeValue(collection[k].value)]]

\* FonCollection::add: data_[key] = value.
add(collection, key, value) ==
    IF \E k \in 1..Len(collection) : collection[k].key = key
    THEN [k \in 1..Len(collection) |->
            IF collection[k].key = key THEN [key |-> key, value |-> value] ELSE collection[k]]
    ELSE Append(collection, [key |-> key, value |-> value])

----------------------------------------------------------------------------
(* fon.hpp: the parser.  Every parse operator returns [ok, value,          *)
(* consumed, ub]: ok is FALSE when the function throws, ub is TRUE when it *)
(* read value_str[0] of an empty view.                                     *)

Thrown == [ok |-> FALSE, value |-> <<>>, consumed |-> 0, ub |-> FALSE]

\* The C++ index of the closing bracket, or -1 when the function throws.
RECURSIVE find_closing_from(_, _, _, _)
find_closing_from(data, i, depth, in_string) ==
    IF i >= Len(data) THEN -1
    ELSE LET c == data[i + 1]
         IN  IF c = DQUOTE /\ (i = 0 \/ data[i] # BACKSLASH)
             THEN find_closing_from(data, i + 1, depth, ~in_string)
             ELSE IF ~in_string /\ c = LBRACKET
             THEN find_closing_from(data, i + 1, depth + 1, in_string)
             ELSE IF ~in_string /\ c = RBRACKET
             THEN IF depth - 1 = 0 THEN i
                  ELSE find_closing_from(data, i + 1, depth - 1, in_string)
             ELSE find_closing_from(data, i + 1, depth, in_string)

find_closing_bracket(data) == find_closing_from(data, 0, 0, FALSE)

\* The element loop of parse_array<T> from C++ index pos of content.  When
\* an iteration leaves pos where it was (parse_number<float> reported 0
\* characters and no ',' follows) every later one does the same: the loop
\* goes on until result.push_back throws for want of memory.
RECURSIVE ParseElements(_, _, _, _)
ParseElements(T, content, pos, elems) ==
    IF pos >= Len(content) THEN [ok |-> TRUE, value |-> elems]
    ELSE LET r == parse_number(T, SubSeq(content, pos + 1, Len(content)))
             next == SkipComma(content, pos + r.consumed)
         IN  IF ~r.ok \/ next = pos THEN [ok |-> FALSE, value |-> elems]
             ELSE ParseElements(T, content, next, Append(elems, r.value))

parse_array(T, data) ==
    LET close == find_closing_bracket(data)
        r == ParseElements(T, SubSeq(data, 2, close), 0, <<>>)
    IN  IF data[1] # LBRACKET \/ close < 0 THEN Thrown
        ELSE IF ~r.ok THEN Thrown
        ELSE [ok |-> TRUE, value |-> [kind |-> VectorOf(T), v |-> r.value],
              consumed |-> SkipComma(data, close + 1), ub |-> FALSE]

IntTags == {TYPE_BYTE, TYPE_SHORT, TYPE_INT, TYPE_UINT, TYPE_LONG, TYPE_ULONG}

NumTags == IntTags \cup {TYPE_FLOAT, TYPE_DOUBLE}

\* parse_value; raw_unpack is Fon::deserialize_raw_unpack.
parse_value(data, type_char, raw_unpack) ==
    IF data = <<>> THEN Thrown
    ELSE IF data[1] = LBRACKET
    THEN IF type_char \in NumTags THEN parse_array(KindOfTag(type_char), data) ELSE Thrown
    ELSE IF type_char = TYPE_STRING
    THEN LET r == parse_string(data)
         IN  IF ~r.ok THEN Thrown
             ELSE [ok |-> TRUE, value |-> [kind |-> "string", v |-> r.value],
                   consumed |-> r.consumed, ub |-> FALSE]
    ELSE IF type_char = TYPE_RAW
    THEN LET r == parse_string(data)
             raw == IF raw_unpack THEN unpack(<<>>, r.value)
                    ELSE [data_ |-> <<>>, encoded_ |-> r.value, threw |-> FALSE]
         IN  IF ~r.ok \/ raw.threw THEN Thrown
             ELSE [ok |-> TRUE,
                   value |-> [kind |-> "raw",
                              v |-> [data_ |-> raw.data_, encoded_ |-> raw.encoded_]],
                   consumed |-> r.consumed, ub |-> FALSE]
    ELSE LET end == find_value_end(data)
             value_str == SubSeq(data, 1, end)
             consumed == SkipComma(data, end)
         IN  IF type_char \in NumTags
             THEN LET r == parse_number(KindOfTag(type_char), value_str)
                  IN  IF ~r.ok THEN Thrown
                      ELSE [ok |-> TRUE, value |-> [kind |-> KindOfTag(type_char), v |-> r.value],
                            consumed |-> consumed, ub |-> FALSE]
             ELSE IF type_char = TYPE_BOOL
             \* value_str[0] of an empty value_str is the delimiter data[0]
             THEN [ok |-> TRUE, value |-> [kind |-> "bool", v |-> data[1] # CH_0],
                   consumed |-> consumed, ub |-> end = 0]
             ELSE Thrown

\* The position of the first c at or after C++ index pos, or -1 (npos).
Find(str, c, pos) ==
    LET hits == {i \in pos..(Len(str) - 1) : str[i + 1] = c}
    IN  IF hits = {} THEN -1 ELSE CHOOSE i \in hits : \A j \in hits : i <= j

\* The loop of deserialize_line from C++ index pos on.
RECURSIVE deserialize_from(_, _, _, _, _)
deserialize_from(line, pos, collection, ub, raw_unpack) ==
    IF pos >= Len(line) THEN [ok |-> TRUE, value |-> collection, consumed |-> pos, ub |-> ub]
    ELSE LET eq_pos == Find(line, EQUALS, pos)
             key == SubSeq(line, pos + 1, eq_pos)
             tpos == eq_pos + 1
         IN  IF eq_pos < 0
             THEN [ok |-> TRUE, value |-> collection, consumed |-> pos, ub |-> ub]
             ELSE IF tpos >= Len(line) \/ tpos + 1 >= Len(line) \/ line[tpos + 2] # COLON
             THEN Thrown
             ELSE LET type_char == line[tpos + 1]
                      vpos == tpos + 2
                      r == parse_value(SubSeq(line, vpos + 1, Len(line)), type_char, raw_unpack)
                      npos == vpos + r.consumed
                  IN  IF ~r.ok THEN Thrown
                      ELSE deserialize_from(line, SkipComma(line, npos),
                                            add(collection, key, r.value),
                                            ub \/ r.ub, raw_unpack)

deserialize_line(line, raw_unpack) == deserialize_from(line, 0, <<>>, FALSE, raw_unpack)

----------------------------------------------------------------------------
(* SpecCodec: one RawData, constructed from bytes or from encoded text,    *)
(* then pack() and unpack() in any order.                                  *)

ByteVals == {0, 1, 2, 128, 255}

\* '0', '1' (a digit and a padding marker), '#' (digit 84), '~' (printable,
\* not in the alphabet).
EncChars == {48, 49, 35, 126}

NoResult == [ok |-> FALSE, value |-> <<>>, consumed |-> 0, ub |-> FALSE]

FnIdle == input = <<>> /\ wire = <<>> /\ result = NoResult /\ stage = "idle"

\* static inline bool deserialize_raw_unpack = false;
ConfigDefault == deserialize_raw_unpack = FALSE

NoException == [kind |-> "none"]

ParIdle ==
    /\ mode = "none"
    /\ pc = "idle"
    /\ max_threads = 0
    /\ dump = <<>>
    /\ heap = <<>>
    /\ heap0 = <<>>
    /\ entries = <<>>
    /\ lines = <<>>
    /\ collections = <<>>
    /\ file = <<>>
    /\ futures = <<>>
    /\ got = 0
    /\ raised = NoException
    /\ faults = 0
    /\ log = {}
    /\ finished = <<>>

CodecIdle ==
    /\ data_ = <<>>
    /\ encoded_ = <<>>
    /\ origin = [from |-> "none", value |-> <<>>]
    /\ ops = <<>>
    /\ threw = FALSE

\* Texts with a character outside printable ASCII: LF, DEL, and a
\* character above 127, alone in a group, and after a valid group.
OddTexts ==
    UNION {{<<48, 48, c, 48, 48>>, <<48, 48, 48, 48, 48, 48, 48, 48, 48, c>>} : c \in {10, 127, 200}}

InitCodec ==
    /\ FnIdle
    /\ ParIdle
    /\ ConfigDefault
    /\ ops = <<>>
    /\ threw = FALSE
    /\ \/ \E b \in SeqsUpTo(ByteVals, MaxBytes) :
            \* explicit RawData(std::vector<uint8_t> data)
            /\ origin = [from |-> "bytes", value |-> b]
            /\ data_ = b
            /\ encoded_ = <<>>
       \/ \E t \in SeqsUpTo(EncChars, MaxEnc) \cup OddTexts :
            \* explicit RawData(std::string_view encoded)
            /\ origin = [from |-> "text", value |-> t]
            /\ data_ = <<>>
            /\ encoded_ = t

Pack ==
    /\ Len(ops) < MaxOps
    /\ LET r == pack(data_, encoded_)
       IN  /\ data_' = r.data_
           /\ encoded_' = r.encoded_
           /\ threw' = r.threw
    /\ ops' = Append(ops, "pack")
    /\ UNCHANGED <<origin, fnVars, deserialize_raw_unpack, parVars>>

Unpack ==
    /\ Len(ops) < MaxOps
    /\ LET r == unpack(data_, encoded_)
       IN  /\ data_' = r.data_
           /\ encoded_' = r.encoded_
           /\ threw' = r.threw
    /\ ops' = Append(ops, "unpack")
    /\ UNCHANGED <<origin, fnVars, deserialize_raw_unpack, parVars>>

NextCodec == Pack \/ Unpack

SpecCodec == InitCodec /\ [][NextCodec]_vars

----------------------------------------------------------------------------
(* SpecText: a text value through serialize_string and parse_string.       *)

\* The seven characters with a two-character escape, two other control
\* characters, and ordinary characters (',', 'a', 'u').
TextChars ==
    {DQUOTE, BACKSLASH, CH_LF, CH_CR, CH_TAB, CH_BS, CH_FF, 1, 31, COMMA, 97, CH_u}

AllSeven == <<DQUOTE, BACKSLASH, CH_LF, CH_CR, CH_TAB, CH_BS, CH_FF>>

InitText ==
    /\ CodecIdle
    /\ ParIdle
    /\ ConfigDefault
    /\ input \in SeqsUpTo(TextChars, MaxText)
                    \cup {AllSeven \o t : t \in SeqsUpTo(TextChars, 1)}
    /\ wire = <<>>
    /\ result = NoResult
    /\ stage = "start"

SerializeString ==
    /\ stage = "start"
    /\ wire' = serialize_string(input)
    /\ stage' = "serialized"
    /\ UNCHANGED <<input, result, codecVars, deserialize_raw_unpack, parVars>>

ParseString ==
    /\ stage = "serialized"
    /\ result' = parse_string(wire)
    /\ stage' = "parsed"
    /\ UNCHANGED <<input, wire, codecVars, deserialize_raw_unpack, parVars>>

NextText == SerializeString \/ ParseString

SpecText == InitText /\ [][NextText]_vars

----------------------------------------------------------------------------
(* SpecRecord: a record is built with add operations, written by           *)
(* serialize_to_string and read back by deserialize_line.                  *)

MinOf(T) == [neg |-> IntLimit(T).signed, mag |-> IntLimit(T).min]
MaxOf(T) == [neg |-> FALSE, mag |-> IntLimit(T).max]
Seven == [neg |-> FALSE, mag |-> <<7>>]

Bytes(b) == [kind |-> "raw", v |-> [data_ |-> b, encoded_ |-> <<>>]]

\* "", "a,b", "a]", a quote, a backslash
TextSamples == {<<>>, <<97, COMMA, 98>>, <<97, RBRACKET>>, <<DQUOTE>>, <<BACKSLASH>>}

\* Every variant of FonValue but the floating-point ones: the limits of every
\* integer width, both booleans, texts, raw blobs (empty, padded, unpadded),
\* and every array type, empty and not.
FullSamples ==
    UNION {{[kind |-> T, v |-> x] : x \in {MinOf(T), MaxOf(T)}} : T \in IntKinds}
    \cup {[kind |-> "int32_t", v |-> Seven]}
    \cup {[kind |-> "bool", v |-> x] : x \in BOOLEAN}
    \cup {[kind |-> "string", v |-> x] : x \in TextSamples}
    \cup {Bytes(<<>>), Bytes(<<1, 2, 3, 4, 5>>), Bytes(<<0, 0, 0, 1>>), Bytes(<<255, 0, 0, 4>>)}
    \cup UNION {{[kind |-> VectorOf(T), v |-> x] : x \in {<<>>, <<MinOf(T), MaxOf(T)>>}}
                    : T \in IntKinds}
    \cup {[kind |-> "vector<bool>", v |-> x] : x \in {<<>>, <<TRUE, FALSE>>}}
    \cup {[kind |-> "vector<string>", v |-> x] : x \in {<<>>, <<<<97>>>>, <<<<97, COMMA>>, <<>>>>,
                                                    <<<<LBRACKET>>, <<97, RBRACKET>>>>}}

\* The values of the second and later entries of a record.
CoreSamples ==
    { [kind |-> "int32_t", v |-> Seven],
      [kind |-> "int64_t", v |-> MinOf("int64_t")],
      [kind |-> "bool", v |-> FALSE],
      [kind |-> "string", v |-> <<97, COMMA, 98>>],
      [kind |-> "string", v |-> <<>>],
      Bytes(<<1, 2, 3, 4, 5>>),
      [kind |-> "vector<int32_t>", v |-> <<Seven, Seven>>],
      [kind |-> "vector<uint8_t>", v |-> <<>>] }

\* "k", "id", "name"
Keys == {<<107>>, <<105, 100>>, <<110, 97, 109, 101>>}

InitRecord ==
    /\ CodecIdle
    /\ ParIdle
    /\ ConfigDefault
    /\ input = <<>>
    /\ wire = <<>>
    /\ result = NoResult
    /\ stage = "build"

\* FonCollection::add with a key the record does not hold yet.
Add ==
    /\ stage = "build"
    /\ Len(input) < MaxEntries
    /\ \E key \in Keys, value \in (IF input = <<>> THEN FullSamples ELSE CoreSamples) :
          /\ \A k \in 1..Len(input) : input[k].key # key
          /\ input' = add(input, key, value)
    /\ UNCHANGED <<wire, result, stage, codecVars, deserialize_raw_unpack, parVars>>

\* fon_set_raw_unpack(enable)
SetRawUnpack ==
    /\ stage = "build"
    /\ \E enable \in BOOLEAN :
          /\ enable # deserialize_raw_unpack
          /\ deserialize_raw_unpack' = enable
    /\ UNCHANGED <<fnVars, codecVars, parVars>>

\* serialize_to_string(input); the raw blobs of input end packed.
SerializeToString ==
    /\ stage = "build"
    /\ wire' = serialize_to_string(input)
    /\ input' = AfterSerialize(input)
    /\ stage' = "serialized"
    /\ UNCHANGED <<result, codecVars, deserialize_raw_unpack, parVars>>

\* What a call of deserialize_line can end in: where the function has
\* undefined behaviour the build may also end the process.
Outcomes(r) == IF r.ub THEN {r, [r EXCEPT !.ok = FALSE, !.value = <<>>]} ELSE {r}

DeserializeLine ==
    /\ stage = "serialized"
    /\ result' \in Outcomes(deserialize_line(wire, deserialize_raw_unpack))
    /\ stage' = "parsed"
    /\ UNCHANGED <<input, wire, codecVars, deserialize_raw_unpack, parVars>>

NextRecord == Add \/ SetRawUnpack \/ SerializeToString \/ DeserializeLine

SpecRecord == InitRecord /\ [][NextRecord]_vars

----------------------------------------------------------------------------
(* SpecLine: deserialize_line on a line of any shape, written by the       *)
(* serializer or not.  A line is a head (a key and what follows it up to   *)
(* the value), a value text and a tail (nothing, or a second entry).       *)

Tags ==
    {TYPE_BYTE, TYPE_SHORT, TYPE_INT, TYPE_UINT, TYPE_LONG, TYPE_ULONG, TYPE_FLOAT,
     TYPE_DOUBLE, TYPE_BOOL, TYPE_STRING, TYPE_RAW}

\* "", "k", "k=", "k=i", "k=:", "k=ii:", and "k=t:" for every tag t and
\* for '?', which is no tag.
LineHeads ==
    { <<>>, <<107>>, <<107, EQUALS>>, <<107, EQUALS, TYPE_INT>>, <<107, EQUALS, COLON>>,
      <<107, EQUALS, TYPE_INT, TYPE_INT, COLON>> }
    \cup {<<107, EQUALS, t, COLON>> : t \in Tags \cup {CH_QUESTION}}

\* '0', '1', '-', '"', '\', ',', '[', ']', 'x'
ValueChars == {CH_0, CH_1, CH_MINUS, DQUOTE, BACKSLASH, COMMA, LBRACKET, RBRACKET, 120}

\* "", ",j" and ",j=i:1"
LineTails ==
    { <<>>, <<COMMA, 106>>, <<COMMA, 106, EQUALS, TYPE_INT, COLON, CH_1>> }

\* "256" and "99999": beyond uint8_t and beyond int16_t.
WideValues == {<<50, 53, 54>>, <<57, 57, 57, 57, 57>>}

LineSamples ==
    {h \o v \o t : h \in LineHeads, v \in SeqsUpTo(ValueChars, MaxValue) \cup WideValues,
                   t \in LineTails}

InitLine ==
    /\ CodecIdle
    /\ ParIdle
    /\ deserialize_raw_unpack \in BOOLEAN
    /\ input = <<>>
    /\ wire \in LineSamples
    /\ result = NoResult
    /\ stage = "line"

\* deserialize_line(wire)
ParseLine ==
    /\ stage = "line"
    /\ result' \in Outcomes(deserialize_line(wire, deserialize_raw_unpack))
    /\ stage' = "parsed"
    /\ UNCHANGED <<input, wire, codecVars, deserialize_raw_unpack, parVars>>

NextLine == ParseLine

SpecLine == InitLine /\ [][NextLine]_vars

----------------------------------------------------------------------------
(* SpecArray: one call of parse_array<T>, its element loop one iteration   *)
(* at a time.  input is the call (T and data), wire the local content,     *)
(* result.value the local result and result.consumed the local pos.        *)

ArrayKinds == {KindOfTag(t) : t \in NumTags}

\* '0', '1', '-', '"', ',', '[', ']', 'x'
ArrayChars == {CH_0, CH_1, CH_MINUS, DQUOTE, COMMA, LBRACKET, RBRACKET, 120}

\* '[' content ']', alone or followed by ','
ArrayTexts ==
    {<<LBRACKET>> \o c \o <<RBRACKET>> \o t :
        c \in SeqsUpTo(ArrayChars, MaxValue), t \in {<<>>, <<COMMA>>}}

\* The elements the memory has room for: more than any content of the
\* domain gives when every iteration consumes a character.
MaxElems == MaxValue + 2

InitArray ==
    /\ CodecIdle
    /\ ParIdle
    /\ ConfigDefault
    /\ input \in [T : ArrayKinds, data : ArrayTexts]
    /\ wire = <<>>
    /\ result = NoResult
    /\ stage = "array"

\* The statements before the loop: the check of data[0], the search for
\* the closing bracket, content and pos.
ArrayOpen ==
    /\ stage = "array"
    /\ LET close == find_closing_bracket(input.data)
       IN  IF input.data[1] # LBRACKET \/ close < 0
           THEN /\ stage' = "raised"
                /\ UNCHANGED <<wire, result>>
           ELSE /\ wire' = SubSeq(input.data, 2, close)
                /\ result' = [ok |-> TRUE, value |-> <<>>, consumed |-> 0, ub |-> FALSE]
                /\ stage' = "loop"
    /\ UNCHANGED <<input, codecVars, deserialize_raw_unpack, parVars>>

\* One iteration of the loop.  parse_number may throw; push_back throws
\* std::bad_alloc when the memory is used up, unless the system ends the
\* process first.
ArrayElement ==
    /\ stage = "loop"
    /\ result.consumed < Len(wire)
    /\ LET pos == result.consumed
           r == parse_number(input.T, SubSeq(wire, pos + 1, Len(wire)))
       IN  IF ~r.ok
           THEN stage' = "raised" /\ UNCHANGED result
           ELSE IF Len(result.value) >= MaxElems
           THEN stage' \in {"raised", "killed"} /\ UNCHANGED result
           ELSE /\ result' = [result EXCEPT !.value = Append(@, r.value),
                                            !.consumed = SkipComma(wire, pos + r.consumed)]
                /\ UNCHANGED stage
    /\ UNCHANGED <<input, wire, codecVars, deserialize_raw_unpack, parVars>>

\* The loop ends; total_consumed; return.
ArrayClose ==
    /\ stage = "loop"
    /\ result.consumed >= Len(wire)
    /\ result' = [result EXCEPT !.consumed = SkipComma(input.data, Len(wire) + 2)]
    /\ stage' = "returned"
    /\ UNCHANGED <<input, wire, codecVars, deserialize_raw_unpack, parVars>>

NextArray == ArrayOpen \/ ArrayElement \/ ArrayClose

SpecArray == InitArray /\ [][NextArray]_vars

\* A call that is not suspended goes on.
SpecArrayFair == SpecArray /\ WF_vars(NextArray)

----------------------------------------------------------------------------
(* fon.hpp: the parallel orchestration shared by serialize_to_file_parallel *)
(* and deserialize_from_file_parallel (the branch built without _MSC_VER). *)
(* Indices start, end and i are the C++ ones.  The calling thread and the  *)
(* tasks take one step at a time, in any order.                            *)

\* std::thread::hardware_concurrency() on a host that can tell its
\* parallelism.  A host where it returns 0 leaves the division of
\* fon.hpp:97 and fon.hpp:350 undefined; these specifications begin after
\* a resolution to at least 1.
HwVals == 1..MaxHw

\* The argument max_threads of the call.
ThreadArgs == (-1)..MaxThreads

\* entries.size() or lines.size(): the number of items to fan out.
ItemCount == IF mode = "save" THEN Len(entries) ELSE Len(lines)

\* A chunk size rounded down instead of up.
chunk_size_floor == ItemCount \div max_threads

\* size_t chunk_size = (size + max_threads - 1) / max_threads;
chunk_size == (ItemCount + max_threads - 1) \div max_threads

NewTask(start, end) ==
    [start |-> start, end |-> end, i |-> start, state |-> "running",
     err |-> NoException, phase |-> "begin", e |-> 1, acc |-> <<>>, loc |-> <<>>]

Running(w) == futures[w].state = "running"

EndOfItem(f) ==
    IF f.i + 1 = f.end
    THEN [f EXCEPT !.i = f.i + 1, !.state = "done", !.phase = "end"]
    ELSE [f EXCEPT !.i = f.i + 1, !.phase = "begin", !.e = 1, !.acc = <<>>]

Failed(f, err) == [f EXCEPT !.state = "failed", !.err = err, !.phase = "end"]

\* if (max_threads <= 0) max_threads = std::thread::hardware_concurrency();
Resolve ==
    /\ pc = "start"
    /\ IF max_threads <= 0
       THEN \E hw \in HwVals : max_threads' = hw
       ELSE UNCHANGED max_threads
    /\ pc' = "prepare"
    /\ UNCHANGED <<mode, dump, heap, heap0, entries, lines, collections, file, futures,
                   got, raised, faults, log, finished>>
    /\ UNCHANGED <<codecVars, fnVars, deserialize_raw_unpack>>

\* One iteration of the launch loop, t = futures.size(): a task is started
\* with std::async, or std::async throws std::system_error.
Launch ==
    /\ pc = "launch"
    /\ LET t == Len(futures)
           start == t * chunk_size
           end == Min(start + chunk_size, ItemCount)
       IN  IF t < max_threads /\ start < ItemCount
           THEN \/ /\ futures' = Append(futures, NewTask(start, end))
                   /\ UNCHANGED <<pc, raised, faults>>
                \/ /\ faults > 0
                   /\ faults' = faults - 1
                   /\ raised' = [kind |-> "system_error"]
                   /\ pc' = "unwind"
                   /\ UNCHANGED futures
           ELSE /\ pc' = "get"
                /\ UNCHANGED <<futures, raised, faults>>
    /\ UNCHANGED <<mode, max_threads, dump, heap, heap0, entries, lines, collections, file,
                   got, log, finished>>
    /\ UNCHANGED <<codecVars, fnVars, deserialize_raw_unpack>>

\* A wait that takes the tasks in the order they end, which the loop below
\* does not do.
AwaitedAsCompleted == IF got < Len(finished) THEN finished[got + 1] ELSE got + 1

\* for (auto& f : futures) f.get(): the future waited for is the next one in
\* launch order.
Awaited == got + 1

\* A wait that drops the exception of the task, as std::future::wait would.
Swallows(f) == FALSE

\* f.get() rethrows the exception the task ended with.
Rethrows(f) == f.state = "failed"

Get ==
    /\ pc = "get"
    /\ IF got >= Len(futures)
       THEN /\ pc' = "post"
            /\ UNCHANGED <<got, raised>>
       ELSE LET f == futures[Awaited]
            IN  /\ f.state # "running"
                /\ IF Rethrows(f)
                   THEN /\ raised' = f.err
                        /\ pc' = "unwind"
                        /\ UNCHANGED got
                   ELSE /\ got' = got + 1
                        /\ UNCHANGED <<pc, raised>>
    /\ UNCHANGED <<mode, max_threads, dump, heap, heap0, entries, lines, collections, file,
                   futures, faults, log, finished>>
    /\ UNCHANGED <<codecVars, fnVars, deserialize_raw_unpack>>

\* Futures whose destructor does not block, as those of std::packaged_task
\* run on detached threads.
FuturesDetached == TRUE

\* The destructor of a future returned by std::async(std::launch::async)
\* blocks until its task has ended.  futures is the last local declared, so
\* it is the first one destroyed when an exception leaves the function.
FuturesDestroyed == \A w \in 1..Len(futures) : ~Running(w)

Unwind ==
    /\ pc = "unwind"
    /\ FuturesDestroyed
    /\ pc' = "raised"
    /\ UNCHANGED <<mode, max_threads, dump, heap, heap0, entries, lines, collections, file,
                   futures, got, raised, faults, log, finished>>
    /\ UNCHANGED <<codecVars, fnVars, deserialize_raw_unpack>>

----------------------------------------------------------------------------
(* fon.hpp: serialize_to_file_parallel.  A FonDump is the sequence of its  *)
(* records [id, collection] in the iteration order of its unordered_map.   *)
(* A raw value is [kind |-> "raw", ptr |-> h]: a shared_ptr to the RawData *)
(* heap[h], which several values may hold.                                 *)

\* The value with the RawData it points to read from hp.
Deref(value, hp) ==
    IF value.kind = "raw" THEN [kind |-> "raw", v |-> hp[value.ptr]] ELSE value

DerefAll(collection, hp) ==
    [k \in 1..Len(collection) |->
        [key |-> collection[k].key, value |-> Deref(collection[k].value, hp)]]

\* std::sort of the (id, &collection) pairs by id; ids are distinct.
RECURSIVE SortById(_)
SortById(recs) ==
    IF recs = <<>> THEN <<>>
    ELSE LET m == CHOOSE k \in 1..Len(recs) : \A j \in 1..Len(recs) : recs[k].id <= recs[j].id
         IN  <<recs[m]>> \o SortById([k \in 1..(Len(recs) - 1) |->
                                        IF k < m THEN recs[k] ELSE recs[k + 1]])

\* entries, sorted; std::vector<std::string> lines(entries.size()).
SavePrepare ==
    /\ pc = "prepare"
    /\ mode = "save"
    /\ entries' = SortById(dump)
    /\ lines' = [k \in 1..Len(dump) |-> <<>>]
    /\ pc' = "launch"
    /\ UNCHANGED <<mode, max_threads, dump, heap, heap0, collections, file, futures,
                   got, raised, faults, log, finished>>
    /\ UNCHANGED <<codecVars, fnVars, deserialize_raw_unpack>>

\* A task that has not ended, in a process that has not ended.
Steps(w) == pc # "aborted" /\ w \in 1..Len(futures) /\ Running(w)

\* The record the task is serializing and the entry it is at.
CurrentRecord(f) == entries[f.i + 1].collection

CurrentEntry(f) == CurrentRecord(f)[f.e]

\* What serialize_to_string appends before the value of entry e.
EntryHead(f) ==
    (IF f.e > 1 THEN <<COMMA>> ELSE <<>>) \o CurrentEntry(f).key
        \o <<EQUALS, get_type_char(CurrentEntry(f).value), COLON>>

\* finished lists the tasks that have ended, in the order they ended.
Ended(w) ==
    finished' = IF futures'[w].state = "running" THEN finished ELSE Append(finished, w)

Accessed(w, loc, op) == log' = log \cup {[w |-> w, loc |-> loc, op |-> op]}

\* std::string result; result.reserve(4096), which may throw std::bad_alloc.
SaveBegin ==
    /\ mode = "save"
    /\ \E w \in 1..Len(futures) :
          /\ Steps(w)
          /\ futures[w].phase = "begin"
          /\ \/ /\ futures' = [futures EXCEPT ![w].phase = "entry"]
                /\ UNCHANGED faults
             \/ /\ faults > 0
                /\ faults' = faults - 1
                /\ futures' = [futures EXCEPT ![w] = Failed(@, [kind |-> "bad_alloc"])]
          /\ Ended(w)
    /\ UNCHANGED <<mode, pc, max_threads, dump, heap, heap0, entries, lines, collections,
                   file, got, raised, log>>
    /\ UNCHANGED <<codecVars, fnVars, deserialize_raw_unpack>>

\* One iteration of the loop of serialize_to_string.  For a raw value it
\* goes as far as the first statement of pack(), which reads encoded_ and
\* data_ of the RawData.
SaveEntry ==
    /\ mode = "save"
    /\ \E w \in 1..Len(futures) :
          /\ Steps(w)
          /\ futures[w].phase = "entry"
          /\ futures[w].e <= Len(CurrentRecord(futures[w]))
          /\ LET f == futures[w]
                 value == CurrentEntry(f).value
             IN  IF value.kind # "raw"
                 THEN /\ futures' = [futures EXCEPT
                            ![w].acc = @ \o EntryHead(f) \o serialize_value(value),
                            ![w].e = @ + 1]
                      /\ UNCHANGED log
                 ELSE LET raw == heap[value.ptr]
                      IN  /\ futures' = [futures EXCEPT
                                ![w].acc = @ \o EntryHead(f) \o <<DQUOTE>>,
                                ![w].loc = raw.data_,
                                ![w].phase = IF raw.encoded_ # <<>> \/ raw.data_ = <<>>
                                             THEN "emit" ELSE "resize"]
                          /\ Accessed(w, <<"RawData", value.ptr>>, "read")
    /\ UNCHANGED <<mode, pc, max_threads, dump, heap, heap0, entries, lines, collections,
                   file, got, raised, faults, finished>>
    /\ UNCHANGED <<codecVars, fnVars, deserialize_raw_unpack>>

\* std::string::resize: new characters are '\0'.
Resize(str, n) == IF Len(str) >= n THEN SubSeq(str, 1, n) ELSE str \o Zeros(n - Len(str))

\* pack(): encoded_.resize(output_len), with input_len as the task read it.
SaveResize ==
    /\ mode = "save"
    /\ \E w \in 1..Len(futures) :
          /\ Steps(w)
          /\ futures[w].phase = "resize"
          /\ LET f == futures[w]
                 h == CurrentEntry(f).value.ptr
             IN  /\ heap' = [heap EXCEPT ![h].encoded_ = Resize(@, Len(PackText(f.loc)))]
                 /\ futures' = [futures EXCEPT ![w].phase = "fill"]
                 /\ Accessed(w, <<"RawData", h>>, "write")
    /\ UNCHANGED <<mode, pc, max_threads, dump, heap0, entries, lines, collections,
                   file, got, raised, faults, finished>>
    /\ UNCHANGED <<codecVars, fnVars, deserialize_raw_unpack>>

\* pack(): the block loop, the padding marker and data_.clear().  Every
\* character of encoded_ is assigned.  std::vector::clear keeps the storage,
\* so a task whose data_ another task has cleared finds the bytes it saw.
SaveFill ==
    /\ mode = "save"
    /\ \E w \in 1..Len(futures) :
          /\ Steps(w)
          /\ futures[w].phase = "fill"
          /\ LET f == futures[w]
                 h == CurrentEntry(f).value.ptr
             IN  /\ heap' = [heap EXCEPT ![h] = [data_ |-> <<>>, encoded_ |-> PackText(f.loc)]]
                 /\ futures' = [futures EXCEPT ![w].phase = "emit"]
                 /\ Accessed(w, <<"RawData", h>>, "write")
    /\ UNCHANGED <<mode, pc, max_threads, dump, heap0, entries, lines, collections,
                   file, got, raised, faults, finished>>
    /\ UNCHANGED <<codecVars, fnVars, deserialize_raw_unpack>>

\* out += raw.pack().encoded(); out += '"';
SaveEmit ==
    /\ mode = "save"
    /\ \E w \in 1..Len(futures) :
          /\ Steps(w)
          /\ futures[w].phase = "emit"
          /\ LET h == CurrentEntry(futures[w]).value.ptr
             IN  /\ futures' = [futures EXCEPT
                       ![w].acc = @ \o heap[h].encoded_ \o <<DQUOTE>>,
                       ![w].e = @ + 1,
                       ![w].phase = "entry"]
                 /\ Accessed(w, <<"RawData", h>>, "read")
    /\ UNCHANGED <<mode, pc, max_threads, dump, heap, heap0, entries, lines, collections,
                   file, got, raised, faults, finished>>
    /\ UNCHANGED <<codecVars, fnVars, deserialize_raw_unpack>>

\* lines[i] = serialize_to_string(*entries[i].second); ++i
SaveStore ==
    /\ mode = "save"
    /\ \E w \in 1..Len(futures) :
          /\ Steps(w)
          /\ futures[w].phase = "entry"
          /\ futures[w].e > Len(CurrentRecord(futures[w]))
          /\ lines' = [lines EXCEPT ![futures[w].i + 1] = futures[w].acc]
          /\ futures' = [futures EXCEPT ![w] = EndOfItem(@)]
          /\ Accessed(w, <<"lines", futures[w].i>>, "write")
          /\ Ended(w)
    /\ UNCHANGED <<mode, pc, max_threads, dump, heap, heap0, entries, collections,
                   file, got, raised, faults>>
    /\ UNCHANGED <<codecVars, fnVars, deserialize_raw_unpack>>

\* The next step of task w reads (op = "read") or writes the RawData h.
NextAccess(w, h, op) ==
    /\ Steps(w)
    /\ futures[w].phase \in {"entry", "resize", "fill", "emit"}
    /\ futures[w].e <= Len(CurrentRecord(futures[w]))
    /\ CurrentEntry(futures[w]).value.kind = "raw"
    /\ CurrentEntry(futures[w]).value.ptr = h
    /\ (op = "write") = (futures[w].phase \in {"resize", "fill"})

\* Two tasks are about to access one RawData, one of them to write it,
\* with nothing that orders the two accesses: a data race, so the run has
\* undefined behaviour.  The outcomes are the interleavings of the steps
\* above and the end of the process.
SaveRace ==
    /\ mode = "save"
    /\ \E w1, w2 \in 1..Len(futures), h \in DOMAIN heap, op \in {"read", "write"} :
          /\ w1 # w2
          /\ NextAccess(w1, h, "write")
          /\ NextAccess(w2, h, op)
    /\ pc' = "aborted"
    /\ UNCHANGED <<mode, max_threads, dump, heap, heap0, entries, lines, collections,
                   file, futures, got, raised, faults, log, finished>>
    /\ UNCHANGED <<codecVars, fnVars, deserialize_raw_unpack>>

\* The text of the file: every line followed by '\n'.
RECURSIVE WriteLines(_)
WriteLines(ls) == IF ls = <<>> THEN <<>> ELSE Head(ls) \o <<CH_LF>> \o WriteLines(Tail(ls))

\* std::ofstream file(path); throw if it did not open; file << line << "\n".
SaveWrite ==
    /\ pc = "post"
    /\ mode = "save"
    /\ \/ /\ file' = WriteLines(lines)
          /\ pc' = "returned"
          /\ UNCHANGED <<raised, faults>>
       \/ /\ faults > 0
          /\ faults' = faults - 1
          /\ raised' = [kind |-> "runtime_error", what |-> "open"]
          /\ pc' = "unwind"
          /\ UNCHANGED file
    /\ UNCHANGED <<mode, max_threads, dump, heap, heap0, entries, lines, collections,
                   futures, got, log, finished>>
    /\ UNCHANGED <<codecVars, fnVars, deserialize_raw_unpack>>

\* The dumps that are saved: records with ids from Ids in any iteration
\* order, each one of Shapes.  Every raw value is a shared_ptr to the one
\* RawData "h1", constructed from the bytes 1, 2.
Ids == {0, 3, 5}

Handles == {"h1"}

SavedHeap == [h \in Handles |-> [data_ |-> <<1, 2>>, encoded_ |-> <<>>]]

RawAt(h) == [kind |-> "raw", ptr |-> h]

\* {}, {id = 7, k = the blob}, and a record whose one key is "a\n".
Shapes ==
    { <<>>,
      <<[key |-> <<105, 100>>, value |-> [kind |-> "int32_t", v |-> Seven]],
        [key |-> <<107>>, value |-> RawAt("h1")]>>,
      <<[key |-> <<97, CH_LF>>, value |-> [kind |-> "bool", v |-> TRUE]]>> }

SavedDumps ==
    UNION {{[k \in 1..Len(ids) |-> [id |-> ids[k], collection |-> shapes[k]]] :
                shapes \in [1..Len(ids) -> Shapes]} :
           ids \in {s \in SeqsUpTo(Ids, MaxRecords) :
                        \A a, b \in 1..Len(s) : a # b => s[a] # s[b]}}

\* The call serialize_to_file(dump, path, max_threads) begins.
InitSave ==
    /\ CodecIdle
    /\ FnIdle
    /\ ConfigDefault
    /\ mode = "save"
    /\ pc = "start"
    /\ max_threads \in ThreadArgs
    /\ dump \in SavedDumps
    /\ heap = SavedHeap
    /\ heap0 = SavedHeap
    /\ entries = <<>>
    /\ lines = <<>>
    /\ collections = <<>>
    /\ file = <<>>
    /\ futures = <<>>
    /\ got = 0
    /\ raised = NoException
    /\ faults \in 0..MaxFaults
    /\ log = {}
    /\ finished = <<>>

NextSave ==
    \/ Resolve \/ SavePrepare \/ Launch \/ Get \/ Unwind \/ SaveWrite
    \/ SaveBegin \/ SaveEntry \/ SaveResize \/ SaveFill \/ SaveEmit \/ SaveStore \/ SaveRace

SpecSave == InitSave /\ [][NextSave]_vars

----------------------------------------------------------------------------
(* fon.hpp: deserialize_from_file_parallel.  file is the content read; a  *)
(* returned dump is the sequence of its records in the order of dump.add.  *)

\* The loop over content from C++ index i, the current line beginning at
\* start, and the statement after the loop.
RECURSIVE SplitFrom(_, _, _, _)
SplitFrom(content, i, start, acc) ==
    IF i >= Len(content)
    THEN IF start < Len(content)
         THEN Append(acc, SubSeq(content, start + 1, Len(content)))
         ELSE acc
    ELSE IF content[i + 1] \in {CH_LF, CH_CR}
    THEN LET acc2 == IF i > start THEN Append(acc, SubSeq(content, start + 1, i)) ELSE acc
             i2 == IF content[i + 1] = CH_CR /\ i + 1 < Len(content) /\ content[i + 2] = CH_LF
                   THEN i + 1 ELSE i
         IN  SplitFrom(content, i2 + 1, i2 + 1, acc2)
    ELSE SplitFrom(content, i + 1, start, acc)

\* A split without the statement after the loop (fon.hpp:332-334): a final
\* run that no terminator follows is dropped.
SplitLinesTerminated(content) ==
    LET ls == SplitFrom(content, 0, 0, <<>>)
    IN  IF content # <<>> /\ content[Len(content)] \notin {CH_LF, CH_CR}
        THEN SubSeq(ls, 1, Len(ls) - 1)
        ELSE ls

SplitLines(content) == SplitFrom(content, 0, 0, <<>>)

\* The file is opened and read, or the open fails and the call throws;
\* lines is filled; std::vector<FonCollection> collections(lines.size()).
LoadPrepare ==
    /\ pc = "prepare"
    /\ mode = "load"
    /\ \/ /\ lines' = SplitLines(file)
          /\ collections' = [k \in 1..Len(SplitLines(file)) |-> <<>>]
          /\ pc' = "launch"
          /\ UNCHANGED <<raised, faults>>
       \/ /\ faults > 0
          /\ faults' = faults - 1
          /\ raised' = [kind |-> "runtime_error", what |-> "open"]
          /\ pc' = "unwind"
          /\ UNCHANGED <<lines, collections>>
    /\ UNCHANGED <<mode, max_threads, dump, heap, heap0, entries, file, futures,
                   got, log, finished>>
    /\ UNCHANGED <<codecVars, fnVars, deserialize_raw_unpack>>

\* The exception deserialize_line throws for line i.
ParseError(i) == [kind |-> "runtime_error", line |-> i]

\* if (!lines[i].empty()) collections[i] = deserialize_line(lines[i]); ++i
LoadLine ==
    /\ mode = "load"
    /\ \E w \in 1..Len(futures) :
          /\ Steps(w)
          /\ LET i == futures[w].i
             IN  IF lines[i + 1] = <<>>
                 THEN /\ futures' = [futures EXCEPT ![w] = EndOfItem(@)]
                      /\ Accessed(w, <<"lines", i>>, "read")
                      /\ UNCHANGED collections
                 ELSE \E r \in Outcomes(deserialize_line(lines[i + 1], deserialize_raw_unpack)) :
                        IF r.ok
                        THEN /\ collections' = [collections EXCEPT ![i + 1] = r.value]
                             /\ futures' = [futures EXCEPT ![w] = EndOfItem(@)]
                             /\ log' = log \cup {[w |-> w, loc |-> <<"lines", i>>, op |-> "read"],
                                                 [w |-> w, loc |-> <<"collections", i>>,
                                                  op |-> "write"]}
                        ELSE /\ futures' = [futures EXCEPT ![w] = Failed(@, ParseError(i))]
                             /\ Accessed(w, <<"lines", i>>, "read")
                             /\ UNCHANGED collections
          /\ Ended(w)
    /\ UNCHANGED <<mode, pc, max_threads, dump, heap, heap0, entries, lines, file,
                   got, raised, faults>>
    /\ UNCHANGED <<codecVars, fnVars, deserialize_raw_unpack>>

\* The records dump.add(i, collections[i]) adds from C++ index i on.
RECURSIVE Assemble(_, _)
Assemble(colls, i) ==
    IF i >= Len(colls) THEN <<>>
    ELSE (IF Len(colls[i + 1]) > 0 THEN <<[id |-> i, collection |-> colls[i + 1]]>> ELSE <<>>)
            \o Assemble(colls, i + 1)

\* FonDump dump(lines.size()); the loop of dump.add; return dump.
LoadAssemble ==
    /\ pc = "post"
    /\ mode = "load"
    /\ dump' = Assemble(collections, 0)
    /\ pc' = "returned"
    /\ UNCHANGED <<mode, max_threads, heap, heap0, entries, lines, collections, file,
                   futures, got, raised, faults, log, finished>>
    /\ UNCHANGED <<codecVars, fnVars, deserialize_raw_unpack>>

\* The files that are loaded: up to MaxLines of these pieces.  "a=i:1" is a
\* record, "abc" has no '=', "k=b:" has an empty value; a piece of only a
\* terminator is a blank line.
Pieces ==
    { <<97, EQUALS, TYPE_INT, COLON, CH_1, CH_LF>>,
      <<97, EQUALS, TYPE_INT, COLON, CH_1, CH_CR, CH_LF>>,
      <<97, 98, 99, CH_LF>>,
      <<107, EQUALS, TYPE_BOOL, COLON, CH_LF>>,
      <<CH_LF>> }

RECURSIVE Concat(_)
Concat(ss) == IF ss = <<>> THEN <<>> ELSE Head(ss) \o Concat(Tail(ss))

LoadedFiles == {Concat(ps) : ps \in SeqsUpTo(Pieces, MaxLines)}

\* The call deserialize_from_file(path, max_threads) begins.
InitLoad ==
    /\ CodecIdle
    /\ FnIdle
    /\ ConfigDefault
    /\ mode = "load"
    /\ pc = "start"
    /\ max_threads \in ThreadArgs
    /\ dump = <<>>
    /\ heap = <<>>
    /\ heap0 = <<>>
    /\ entries = <<>>
    /\ lines = <<>>
    /\ collections = <<>>
    /\ file \in LoadedFiles
    /\ futures = <<>>
    /\ got = 0
    /\ raised = NoException
    /\ faults \in 0..MaxFaults
    /\ log = {}
    /\ finished = <<>>

NextLoad == Resolve \/ LoadPrepare \/ Launch \/ Get \/ Unwind \/ LoadLine \/ LoadAssemble

SpecLoad == InitLoad /\ [][NextLoad]_vars

\* SpecLoadAny: one call of deserialize_from_file on a file of any content
\* over CR, LF and 'a', up to MaxContent characters.
AnyContents == SeqsUpTo({CH_CR, CH_LF, 97}, MaxContent)

InitLoadAny ==
    /\ CodecIdle
    /\ FnIdle
    /\ ConfigDefault
    /\ mode = "load"
    /\ pc = "start"
    /\ max_threads \in ThreadArgs
    /\ dump = <<>>
    /\ heap = <<>>
    /\ heap0 = <<>>
    /\ entries = <<>>
    /\ lines = <<>>
    /\ collections = <<>>
    /\ file \in AnyContents
    /\ futures = <<>>
    /\ got = 0
    /\ raised = NoException
    /\ faults \in 0..MaxFaults
    /\ log = {}
    /\ finished = <<>>

SpecLoadAny == InitLoadAny /\ [][NextLoad]_vars

\* SpecParallel: one call of either function.
InitParallel == InitSave \/ InitLoad

NextParallel ==
    \/ Resolve \/ Launch \/ Get \/ Unwind
    \/ SavePrepare \/ SaveWrite
    \/ SaveBegin \/ SaveEntry \/ SaveResize \/ SaveFill \/ SaveEmit \/ SaveStore \/ SaveRace
    \/ LoadPrepare \/ LoadLine \/ LoadAssemble

SpecParallel == InitParallel /\ [][NextParallel]_vars

\* SpecAnyHost: one call of either function on any host.
\* std::thread::hardware_concurrency() returns 0 where the parallelism is
\* not computable or not well defined.
HostVals == 0..MaxHw

\* if (max_threads <= 0) max_threads = std::thread::hardware_concurrency();
ResolveOnHost ==
    /\ pc = "start"
    /\ IF max_threads <= 0
       THEN \E hw \in HostVals : max_threads' = hw
       ELSE UNCHANGED max_threads
    /\ pc' = "prepare"
    /\ UNCHANGED <<mode, dump, heap, heap0, entries, lines, collections, file, futures,
                   got, raised, faults, log, finished>>
    /\ UNCHANGED <<codecVars, fnVars, deserialize_raw_unpack>>

\* size_t chunk_size = (size + max_threads - 1) / max_threads with
\* max_threads = 0: the division is undefined.  Where the processor traps
\* the process ends here; where the division gives a value the launch loop
\* runs no iteration (t < 0 is false), as Launch has it.
DivideByZero ==
    /\ pc = "launch"
    /\ max_threads = 0
    /\ pc' = "aborted"
    /\ UNCHANGED <<mode, max_threads, dump, heap, heap0, entries, lines, collections, file,
                   futures, got, raised, faults, log, finished>>
    /\ UNCHANGED <<codecVars, fnVars, deserialize_raw_unpack>>

NextAnyHost ==
    \/ ResolveOnHost \/ DivideByZero \/ Launch \/ Get \/ Unwind
    \/ SavePrepare \/ SaveWrite
    \/ SaveBegin \/ SaveEntry \/ SaveResize \/ SaveFill \/ SaveEmit \/ SaveStore \/ SaveRace
    \/ LoadPrepare \/ LoadLine \/ LoadAssemble

SpecAnyHost == InitParallel /\ [][NextAnyHost]_vars

\* SpecSaveLoad: serialize_to_file of a dump with the ids 0..N-1, then
\* deserialize_from_file of the file written.  input keeps the dump saved.
DenseIds == {s \in SeqsUpTo(0..(MaxRecords - 1), MaxRecords) :
                {s[k] : k \in 1..Len(s)} = 0..(Len(s) - 1)}

DenseDumps ==
    UNION {{[k \in 1..Len(ids) |-> [id |-> ids[k], collection |-> shapes[k]]] :
                shapes \in [1..Len(ids) -> Shapes]} :
           ids \in DenseIds}

InitSaveDense ==
    /\ CodecIdle
    /\ FnIdle
    /\ ConfigDefault
    /\ mode = "save"
    /\ pc = "start"
    /\ max_threads \in ThreadArgs
    /\ dump \in DenseDumps
    /\ heap = SavedHeap
    /\ heap0 = SavedHeap
    /\ entries = <<>>
    /\ lines = <<>>
    /\ collections = <<>>
    /\ file = <<>>
    /\ futures = <<>>
    /\ got = 0
    /\ raised = NoException
    /\ faults \in 0..MaxFaults
    /\ log = {}
    /\ finished = <<>>

\* serialize_to_file has returned; the caller calls deserialize_from_file on
\* the same path.
Reload ==
    /\ mode = "save"
    /\ pc = "returned"
    /\ mode' = "load"
    /\ pc' = "start"
    /\ max_threads' \in ThreadArgs
    /\ input' = dump
    /\ dump' = <<>>
    /\ entries' = <<>>
    /\ lines' = <<>>
    /\ collections' = <<>>
    /\ futures' = <<>>
    /\ got' = 0
    /\ log' = {}
    /\ finished' = <<>>
    /\ UNCHANGED <<heap, heap0, file, raised, faults, wire, result, stage>>
    /\ UNCHANGED <<codecVars, deserialize_raw_unpack>>

NextSaveLoad == NextSave \/ Reload \/ LoadPrepare \/ LoadLine \/ LoadAssemble

SpecSaveLoad == InitSaveDense /\ [][NextSaveLoad]_vars

----------------------------------------------------------------------------
(* Properties of SpecCodec.                                                *)

\* C2: a RawData constructed from bytes b, then pack() followed by unpack(),
\* ends with data() equal to b, and unpack() raised no error.
C2_CodecRoundTrip ==
    (origin.from = "bytes" /\ ops = <<"pack", "unpack">>)
        => (data_ = origin.value /\ ~threw)

\* C3: after any construction and any calls of pack() and unpack(), failed
\* ones included, data_ and encoded_ are never both non-empty, and both are
\* empty only for a blob constructed empty.
C3_ExactlyOneRepresentation ==
    /\ ~(data_ # <<>> /\ encoded_ # <<>>)
    /\ (data_ = <<>> /\ encoded_ = <<>>) => origin.value = <<>>

\* The member call the step makes: the last of ops'.
Calls(op) == ops' # ops /\ ops'[Len(ops')] = op

\* C14: pack() on a blob whose text is non-empty or whose bytes are empty,
\* and unpack() on a blob whose bytes are non-empty or whose text is empty,
\* leave both representations exactly as they were; so a second pack() right
\* after a pack(), and a second unpack() right after an unpack(), change
\* nothing.
C14_RepeatIsNoOp ==
    [][/\ (Calls("pack") /\ (encoded_ # <<>> \/ data_ = <<>>))
            => (data_' = data_ /\ encoded_' = encoded_ /\ ~threw')
       /\ (Calls("unpack") /\ (data_ # <<>> \/ encoded_ = <<>>))
            => (data_' = data_ /\ encoded_' = encoded_ /\ ~threw')
       /\ \A op \in {"pack", "unpack"} :
            (Calls(op) /\ ops # <<>> /\ ops[Len(ops)] = op)
                => (data_' = data_ /\ encoded_' = encoded_)]_vars

\* A blob constructed from encoded text and packed twice, still holding it.
C14_Witness ==
    /\ ops = <<"pack", "pack">>
    /\ origin.from = "text"
    /\ origin.value # <<>>
    /\ encoded_ = origin.value
    /\ data_ = <<>>

\* C17: for every non-empty byte sequence b the last character of its
\* packed text is '1', '2' or '3' exactly when len(b) is not a multiple of
\* 4, and then it is the digit 4 - (len(b) mod 4); the packed text of an
\* input whose length is a multiple of 4 never ends in a character that
\* unpack() takes for a padding marker.
C17_PaddingMarker ==
    (ops = <<"pack">> /\ origin.from = "bytes" /\ origin.value # <<>>) =>
        LET last == encoded_[Len(encoded_)]
            rest == Len(origin.value) % 4
        IN  /\ (last \in {49, 50, 51}) <=> (rest # 0)
            /\ rest # 0 => last = 48 + (4 - rest)

\* The characters unpack() decodes in groups: all of the text but a final
\* '1', '2' or '3'.
Grouped(text) ==
    IF text # <<>> /\ text[Len(text)] \in {49, 50, 51}
    THEN SubSeq(text, 1, Len(text) - 1) ELSE text

\* Not one of the 85 symbols of z85_encode, or not printable ASCII.
InvalidSymbol(c) == ~\E k \in 1..BASE : z85_encode[k] = c

\* C18: unpack() on an encoded text that holds, in any of its 5-character
\* groups, a character outside the alphabet or outside printable ASCII
\* raises an error and yields no bytes: no such character is skipped or
\* decoded as a digit.
C18_DecodeRejects ==
    (/\ ops = <<"unpack">>
     /\ origin.from = "text"
     /\ \E k \in 1..Len(Grouped(origin.value)) : InvalidSymbol(Grouped(origin.value)[k]))
        => (threw /\ data_ = <<>>)

----------------------------------------------------------------------------
(* Properties of SpecText.                                                 *)

\* C10: for every text value, serialize_string emits the documented escapes
\* (no quote, backslash or control character below 32 is left bare between
\* the quotes) and parse_string of that output returns exactly the original
\* text.
C10_EscapingRoundTrip ==
    /\ stage \in {"serialized", "parsed"} =>
          /\ wire[1] = DQUOTE /\ wire[Len(wire)] = DQUOTE
          /\ \A k \in 2..(Len(wire) - 1) : wire[k] >= 32
    /\ stage = "parsed" => (result.ok /\ result.value = input)

\* The number of consecutive backslashes right before C++ index i of data.
RECURSIVE BackslashRun(_, _)
BackslashRun(data, i) ==
    IF i > 0 /\ data[i] = BACKSLASH THEN 1 + BackslashRun(data, i - 1) ELSE 0

\* The C++ indices, after the opening quote, of the quotes that an even
\* number of backslashes precedes.
UnescapedQuotes(data) ==
    {i \in 1..(Len(data) - 1) : data[i + 1] = DQUOTE /\ BackslashRun(data, i) % 2 = 0}

\* C19: the scan for the closing quote takes a '"' for escaped exactly when
\* an odd number of consecutive backslashes precedes it: the string ends at
\* the first '"' preceded by an even number of them, as after the
\* two-backslash escape of a text that ends in a backslash.
C19_QuoteEscapeParity ==
    stage = "parsed" =>
        /\ UnescapedQuotes(wire) # {}
        /\ \A i \in UnescapedQuotes(wire) :
              (\A j \in UnescapedQuotes(wire) : i <= j) => result.consumed = i + 1

----------------------------------------------------------------------------
(* Properties of SpecRecord.                                               *)

\* The bytes of a raw blob whichever form it is held in, as its packed text.
Content(value) ==
    IF value.kind = "raw" THEN pack(value.v.data_, value.v.encoded_).encoded_ ELSE value.v

\* Same key set, and every key maps to a value of the same variant and equal
\* content.
SameRecord(a, b) ==
    /\ {a[k].key : k \in 1..Len(a)} = {b[k].key : k \in 1..Len(b)}
    /\ \A i \in 1..Len(a), j \in 1..Len(b) :
          a[i].key = b[j].key =>
             /\ a[i].value.kind = b[j].value.kind
             /\ Content(a[i].value) = Content(b[j].value)

\* C1: for every record built with add operations,
\* deserialize_line(serialize_to_string(record)) returns a record with the
\* same key set in which every key maps to a value of the same variant and
\* equal content.
C1_RecordRoundTrip ==
    stage = "parsed" => (result.ok /\ SameRecord(result.value, input))

\* The text holds a '[', a ']' or a ','.
HasDelimiter(str) == \E k \in 1..Len(str) : str[k] \in {LBRACKET, RBRACKET, COMMA}

\* C11: an array of strings with an element that holds a '[', ']' or ',',
\* written by the serializer under tag s, parses to an array of exactly the
\* original strings, in order.
C11_TextArrayRobust ==
    (/\ stage = "parsed"
     /\ Len(input) = 1
     /\ input[1].value.kind = "vector<string>"
     /\ \E k \in 1..Len(input[1].value.v) : HasDelimiter(input[1].value.v[k]))
        => (result.ok /\ result.value = input)

----------------------------------------------------------------------------
(* Properties of SpecLine.                                                 *)

\* The C++ index of the first '=' of the line, or -1.
FirstEquals(line) == Find(line, EQUALS, 0)

\* A non-empty line without any '='.
NoEquals(line) == line # <<>> /\ FirstEquals(line) < 0

\* The first '=' is not followed by one character and a ':'.
NoTagColon(line) ==
    /\ FirstEquals(line) >= 0
    /\ ~(FirstEquals(line) + 2 < Len(line) /\ line[FirstEquals(line) + 3] = COLON)

\* A line without strings and arrays, so that every ',' separates two
\* entries, whose last entry is not empty and has no '='.
DanglingEntry(line) ==
    /\ \A q \in 1..Len(line) : line[q] \notin {DQUOTE, LBRACKET, RBRACKET}
    /\ \E p \in 1..(Len(line) - 1) :
          /\ line[p] = COMMA
          /\ \A q \in (p + 1)..Len(line) : line[q] \notin {EQUALS, COMMA}

\* C12: deserialize_line raises for every line holding an entry that is
\* not of the shape key '=' tag ':' value (no '=', or '=' not followed at
\* once by a tag character and ':'), and returns no record for it, empty or
\* partial.
C12_MalformedEntryFatal ==
    (stage = "parsed" /\ (NoEquals(wire) \/ NoTagColon(wire) \/ DanglingEntry(wire)))
        => (~result.ok /\ result.value = <<>>)

\* The 21 alternatives of FonValue.
ScalarVariants ==
    {"uint8_t", "int16_t", "int32_t", "uint32_t", "int64_t", "uint64_t", "float", "double",
     "bool", "string", "raw"}

ArrayVariants == {VectorOf(T) : T \in ScalarVariants \ {"raw"}}

\* The wire tag documented for a scalar alternative (fon_types.hpp:20-31).
TagOfScalar(T) ==
    CASE T = "uint8_t"  -> 101
      [] T = "int16_t"  -> 116
      [] T = "int32_t"  -> 105
      [] T = "uint32_t" -> 117
      [] T = "int64_t"  -> 108
      [] T = "uint64_t" -> 103
      [] T = "float"    -> 102
      [] T = "double"   -> 100
      [] T = "bool"     -> 98
      [] T = "string"   -> 115
      [] T = "raw"      -> 114

\* The tag an entry of the parsed line was written with: the entry "k" has
\* the tag of the head, every other entry is the one of the tail, tag i.
TagInLine(key) == IF key = <<107>> THEN wire[3] ELSE TYPE_INT

\* C13: get_type_char is defined for every variant and gives an array the
\* tag of its element type; and a value that parses under tag t is the
\* scalar variant of t or the array variant with element type t, so
\* get_type_char of the parsed value is t and no number changes width.
C13_TagVariantAgree ==
    /\ \A T \in ScalarVariants : get_type_char([kind |-> T]) = TagOfScalar(T)
    /\ \A T \in ScalarVariants \ {"raw"} :
          get_type_char([kind |-> VectorOf(T)]) = TagOfScalar(T)
    /\ (stage = "parsed" /\ result.ok) =>
          \A k \in 1..Len(result.value) :
             LET e == result.value[k]
             IN  /\ get_type_char(e.value) = TagInLine(e.key)
                 /\ \E T \in ScalarVariants :
                       /\ TagOfScalar(T) = TagInLine(e.key)
                       /\ e.value.kind \in {T, VectorOf(T)}

\* The line k=l:[1] parsed to an array of 64-bit integers.
C13_Witness ==
    /\ stage = "parsed"
    /\ result.ok
    /\ wire = <<107, EQUALS, TYPE_LONG, COLON, LBRACKET, CH_1, RBRACKET>>
    /\ result.value[1].value = [kind |-> "vector<int64_t>", v |-> <<[neg |-> FALSE, mag |-> <<1>>]>>]

\* The value of the entry "k", from its first character to the end of the
\* line.
ValueInLine == SubSeq(wire, 5, Len(wire))

\* The line is k '=' s-or-r ':' '"' ... and no '"' after the opening one is
\* preceded by an even number of backslashes.
UnterminatedString ==
    /\ Len(wire) >= 5
    /\ SubSeq(wire, 1, 2) = <<107, EQUALS>>
    /\ wire[3] \in {TYPE_STRING, TYPE_RAW}
    /\ wire[4] = COLON
    /\ wire[5] = DQUOTE
    /\ UnescapedQuotes(ValueInLine) = {}

\* C20: for a value of tag s or r that opens with '"' and has no unescaped
\* closing '"' before the end of the line, deserialize_line raises and
\* returns no record.
C20_UnterminatedStringFatal ==
    (stage = "parsed" /\ UnterminatedString) => (~result.ok /\ result.value = <<>>)

\* The line is k '=' t ':' value ... with an integer tag t and a value that
\* is no array.
IntegerScalar ==
    /\ Len(wire) >= 4
    /\ SubSeq(wire, 1, 2) = <<107, EQUALS>>
    /\ wire[3] \in IntTags
    /\ wire[4] = COLON
    /\ (Len(wire) >= 5 => wire[5] # LBRACKET)

\* The text of the value up to its delimiter.
ValueText == SubSeq(ValueInLine, 1, find_value_end(ValueInLine))

\* text is a base-10 literal within the range of T: digits only, after a
\* '-' when T is signed.
IsLiteral(T, text) ==
    LET lim == IntLimit(T)
        minus == lim.signed /\ Len(text) > 0 /\ text[1] = CH_MINUS
        digs == IF minus THEN Tail(text) ELSE text
    IN  /\ Len(digs) > 0
        /\ \A k \in 1..Len(digs) : IsDigit(digs[k])
        /\ MagLE(StripZeros([k \in 1..Len(digs) |-> digs[k] - CH_0]),
                 IF minus THEN lim.min ELSE lim.max)

\* C21: for every integer tag, a scalar whose text up to its delimiter is
\* not entirely a base-10 literal within the range of the tagged width
\* makes deserialize_line raise: no value comes from a numeric prefix and
\* none wraps around.
C21_IntegerParseFailsHard ==
    (stage = "parsed" /\ IntegerScalar /\ ~IsLiteral(KindOfTag(wire[3]), ValueText))
        => (~result.ok /\ result.value = <<>>)

\* The sign, if T takes one, and the run of digits that text opens with.
NumeralPrefix(T, text) ==
    LET first == IF IntLimit(T).signed /\ Len(text) > 0 /\ text[1] = CH_MINUS THEN 1 ELSE 0
    IN  SubSeq(text, 1, first + DigitRun(text, first))

\* The part of C21 that holds: a scalar whose numeral prefix is empty, a
\* lone '-' or out of the range of the tagged width makes deserialize_line
\* raise, so no value wraps around and no unsigned tag takes a '-'.
C21_RejectedNumeralRaises ==
    (/\ stage = "parsed"
     /\ IntegerScalar
     /\ ~IsLiteral(KindOfTag(wire[3]), NumeralPrefix(KindOfTag(wire[3]), ValueText)))
        => (~result.ok /\ result.value = <<>>)

----------------------------------------------------------------------------
(* Properties of SpecArrayFair.                                            *)

\* An iteration of the element loop leaves pos further on.
Advances == (stage = "loop" /\ stage' = "loop") => result'.consumed > result.consumed

\* The step model of the loop and the function parse_array agree on every
\* call that returns.
ArrayAgrees ==
    stage = "returned" =>
        /\ parse_array(input.T, input.data).ok
        /\ parse_array(input.T, input.data).value.v = result.value
        /\ parse_array(input.T, input.data).consumed = result.consumed

\* C23: parsing terminates: the call finishes, returning or raising, and
\* the element loop of parse_array advances its position on every iteration
\* for every array content of every numeric element type, floats included.
C23_ParsingTerminates ==
    /\ [][Advances]_vars
    /\ <>(stage \in {"returned", "raised"})

\* The part of C23 that holds: for the integer element types every
\* iteration advances, parse_number consuming a digit or throwing.
C23_IntegerLoopAdvances == [][input.T \notin FloatKinds => Advances]_vars

----------------------------------------------------------------------------
(* Properties of SpecSave.                                                 *)

\* The output-buffer slots of task w: the C++ indices start..end-1.
OwnRange(w) == futures[w].start..(futures[w].end - 1)

\* C4: during one parallel call, every location a task writes is an
\* output-buffer slot inside its own index range, no task changes the
\* RawData objects the values of the input dump point to, and no location
\* written by one task is read or written by another, also when two records
\* in different tasks' ranges hold the same raw blob.
C4_NoSharedMutableState ==
    /\ \A a \in log :
          a.op = "write" =>
             /\ a.loc[1] \in {"lines", "collections"}
             /\ a.loc[2] \in OwnRange(a.w)
             /\ \A b \in log : b.w # a.w => b.loc # a.loc
    /\ mode = "save" => heap = heap0

\* What one task working through all records in order writes for the dump.
SequentialFile ==
    WriteLines([k \in 1..Len(dump) |->
                  serialize_to_string(DerefAll(SortById(dump)[k].collection, heap0))])

\* C5: for a fixed dump, the bytes serialize_to_file writes are the same for
\* every thread count: those a single task writes.
C5_ThreadCountIndependence ==
    (mode = "save" /\ pc = "returned") => file = SequentialFile

\* The LF-terminated lines of a text, without their LF; characters after
\* the last LF would be one more line.
RECURSIVE LFLines(_, _)
LFLines(text, line) ==
    IF text = <<>> THEN (IF line = <<>> THEN <<>> ELSE <<line>>)
    ELSE IF Head(text) = CH_LF THEN <<line>> \o LFLines(Tail(text), <<>>)
    ELSE LFLines(Tail(text), Append(line, Head(text)))

\* The record of the dump with the k-th smallest id, k from 0.
KthRecord(k) ==
    CHOOSE r \in {dump[q] : q \in 1..Len(dump)} :
        Cardinality({q \in 1..Len(dump) : dump[q].id < r.id}) = k

\* C15: the file written holds exactly one LF-terminated line per record and
\* nothing else, and its k-th line is the serialization of the record with
\* the k-th smallest id, for every set of ids and every thread count.
C15_SaveOrder ==
    (mode = "save" /\ pc = "returned") =>
        /\ file = <<>> \/ file[Len(file)] = CH_LF
        /\ Len(LFLines(file, <<>>)) = Len(dump)
        /\ \A k \in 0..(Len(dump) - 1) :
              LFLines(file, <<>>)[k + 1]
                  = serialize_to_string(DerefAll(KthRecord(k).collection, heap0))

\* C24: serialization does not change its input: after serialize_to_file
\* every raw blob reachable from the dump is in the representation it was in
\* before, with the same data() and the same encoded().  (The records, their
\* keys and their other values are only read: no action of the call assigns
\* dump.)
C24_SerializationKeepsInput ==
    (mode = "save" /\ pc = "returned") =>
        \A h \in DOMAIN heap :
            heap[h].data_ = heap0[h].data_ /\ heap[h].encoded_ = heap0[h].encoded_

\* The part of C24 that holds: a call whose dump reaches no raw blob leaves
\* every RawData as it was.
C24_NoBlobNoChange ==
    (/\ mode = "save"
     /\ \A k \in 1..Len(dump) : \A e \in 1..Len(dump[k].collection) :
           dump[k].collection[e].value.kind # "raw")
        => heap = heap0

----------------------------------------------------------------------------
(* Properties of SpecLoad.                                                 *)

\* C6: loading a file with K non-empty lines yields a dump whose ids are
\* exactly 0..K-1, the record at id i being the parse of the i-th non-empty
\* line.
C6_DenseIds ==
    (mode = "load" /\ pc = "returned") =>
        /\ {dump[k].id : k \in 1..Len(dump)} = 0..(Len(SplitLines(file)) - 1)
        /\ \A k \in 1..Len(dump) :
              dump[k].collection =
                  deserialize_line(SplitLines(file)[dump[k].id + 1], deserialize_raw_unpack).value

FailedTasks == {w \in 1..Len(futures) : futures[w].state = "failed"}

EarliestFailed == CHOOSE w \in FailedTasks : \A v \in FailedTasks : w <= v

\* C8 as stated: when tasks of a call fail, the error raised to the caller
\* is the failure of the earliest-launched failing task, whatever order the
\* tasks end in.
C8_FirstErrorWins ==
    (pc = "raised" /\ FailedTasks # {}) => raised = futures[EarliestFailed].err

\* C8, amended: the same, for a call whose launch loop started every task;
\* a call in which std::async throws raises that std::system_error, whatever
\* the tasks already started fail with.
C8_FirstErrorWinsAfterLaunch ==
    (pc = "raised" /\ FailedTasks # {} /\ raised.kind # "system_error")
        => raised = futures[EarliestFailed].err

\* Two tasks failed, the later-launched one first, and the caller got the
\* failure of the earlier-launched one.
C8_Witness ==
    /\ pc = "raised"
    /\ Cardinality(FailedTasks) >= 2
    /\ finished[1] # EarliestFailed
    /\ futures[finished[1]].state = "failed"
    /\ raised = futures[EarliestFailed].err

\* deserialize_line throws for the line at C++ index i.
LineFails(i) ==
    lines[i + 1] # <<>> /\ ~deserialize_line(lines[i + 1], deserialize_raw_unpack).ok

\* C9: if deserialize_line fails for any line of the file, the call raises
\* and returns no dump: it never returns with records of the other lines.
C9_AllOrNothing ==
    (mode = "load" /\ \E i \in 0..(Len(lines) - 1) : LineFails(i)) =>
        /\ pc # "returned"
        /\ dump = <<>>
        /\ (pc = "raised" => raised # NoException)

\* A call that raised for a failing line after another line had been parsed
\* into its slot of collections.
C9_Witness ==
    /\ mode = "load"
    /\ pc = "raised"
    /\ raised.kind = "runtime_error"
    /\ \E i \in 0..(Len(lines) - 1) : LineFails(i)
    /\ \E k \in 1..Len(collections) : collections[k] # <<>>
    /\ dump = <<>>

----------------------------------------------------------------------------
(* Properties of SpecLoadAny.                                              *)

Terminators == {CH_CR, CH_LF}

\* The positions of file where a run of characters other than CR and LF
\* begins: at the start of the file or right after a terminator.
RunStarts ==
    {a \in 1..Len(file) :
        file[a] \notin Terminators /\ (a = 1 \/ file[a - 1] \in Terminators)}

\* The position where the run beginning at a ends: before the next
\* terminator or at the end of the file.
RunEnd(a) ==
    CHOOSE b \in a..Len(file) :
        /\ \A q \in a..b : file[q] \notin Terminators
        /\ (b = Len(file) \/ file[b + 1] \in Terminators)

\* lines has been filled.
LinesSplit == mode = "load" /\ pc \in {"launch", "get", "post", "returned"}

\* C22: the lines handed to the parser are exactly the maximal non-empty
\* runs of characters other than CR and LF, in file order: CR LF is one
\* boundary, an empty run between two terminators gives no line, a final
\* run without terminator is a line, and no line holds CR or LF.
C22_LineSplitting ==
    LinesSplit =>
        /\ Len(lines) = Cardinality(RunStarts)
        /\ \A a \in RunStarts :
              lines[Cardinality({b \in RunStarts : b <= a})] = SubSeq(file, a, RunEnd(a))
        /\ \A k \in 1..Len(lines) :
              lines[k] # <<>> /\ \A q \in 1..Len(lines[k]) : lines[k][q] \notin Terminators

\* The file "a" CR LF LF "a": CR LF and a blank line between two runs, the
\* second run unterminated; the call has returned.
C22_Witness ==
    /\ mode = "load"
    /\ pc = "returned"
    /\ file = <<97, CH_CR, CH_LF, CH_LF, 97>>
    /\ lines = <<<<97>>, <<97>>>>

----------------------------------------------------------------------------
(* Properties of SpecAnyHost.                                              *)

\* C26: for every argument max_threads, positive, zero or negative, and
\* every value hardware_concurrency() can return, the thread count that
\* divides in the chunk-size computation of serialize_to_file_parallel and
\* deserialize_from_file_parallel is at least 1.
C26_ThreadCountAtLeastOne == pc = "launch" => max_threads >= 1

\* The part of C26 that holds: a positive argument is the divisor as it is.
C26_PositiveArgumentKept ==
    [][(pc = "start" /\ max_threads >= 1) => max_threads' = max_threads]_vars

----------------------------------------------------------------------------
(* Properties of SpecSaveLoad.                                             *)

\* The line written for the record of the saved dump with id k.
OriginalLine(k) ==
    LET r == CHOOSE x \in {input[q] : q \in 1..Len(input)} : x.id = k
    IN  serialize_to_string(DerefAll(r.collection, heap0))

\* The load that follows the save has raised for a line of the file.
LoadRaisedForLine ==
    mode = "load" /\ pc = "raised" /\ \E i \in 0..(Len(lines) - 1) : raised = ParseError(i)

\* C25: for a dump whose ids are exactly 0..N-1, serialize_to_file followed
\* by deserialize_from_file of the written file returns a dump with the same
\* N ids, the record at id k being the parse of the line written for the
\* original record k.
C25_DenseSaveLoad ==
    /\ ~LoadRaisedForLine
    /\ (mode = "load" /\ pc = "returned") =>
          /\ Len(dump) = Len(input)
          /\ {dump[q].id : q \in 1..Len(dump)} = 0..(Len(input) - 1)
          /\ \A q \in 1..Len(dump) :
                dump[q].collection
                    = deserialize_line(OriginalLine(dump[q].id), deserialize_raw_unpack).value

----------------------------------------------------------------------------
(* Properties of SpecParallel.                                             *)

\* ceil(n / T): the least c with c * T >= n.
CeilDiv(n, T) == CHOOSE c \in 0..n : c * T >= n /\ \A b \in 0..(c - 1) : b * T < n

\* The launch loop has ended without std::async throwing.
LaunchDone ==
    \/ pc \in {"get", "post", "returned"}
    \/ pc \in {"unwind", "raised"} /\ raised.kind # "system_error"

\* C16: for n items and a resolved thread count T >= 1 the tasks launched
\* get the ranges [t*c, min((t+1)*c, n)) with c = ceil(n/T), t counting from
\* 0 in launch order: non-empty, disjoint, each beginning where the one
\* before ends; there are at most T of them, and once the launch loop has
\* ended their union is exactly [0, n), with no task at all when n = 0.
C16_RangePartition ==
    pc \in {"launch", "get", "post", "returned", "unwind", "raised"} =>
        LET n == ItemCount
            T == max_threads
            c == CeilDiv(n, T)
        IN  /\ T >= 1
            /\ Len(futures) <= T
            /\ \A w \in 1..Len(futures) :
                  /\ futures[w].start = (w - 1) * c
                  /\ futures[w].end = Min(w * c, n)
                  /\ futures[w].start < futures[w].end
                  /\ w > 1 => futures[w].start = futures[w - 1].end
            /\ \A w, v \in 1..Len(futures) : w # v => OwnRange(w) \cap OwnRange(v) = {}
            /\ LaunchDone =>
                  /\ UNION {OwnRange(w) : w \in 1..Len(futures)} = 0..(n - 1)
                  /\ n = 0 => futures = <<>>

\* Three lines on two tasks: the ranges [0, 2) and [2, 3).
C16_Witness ==
    /\ LaunchDone
    /\ ItemCount = 3
    /\ max_threads = 2
    /\ Len(futures) = 2
    /\ OwnRange(1) = {0, 1}
    /\ OwnRange(2) = {2}


\* C7: a call returns, normally or by raising, only after every task it
\* launched has ended, also when a task fails; the file write and the
\* assembly of the dump begin only after every task has ended without
\* failure, and nothing of the result exists before that.
C7_Barrier ==
    /\ pc \in {"returned", "raised"} => \A w \in 1..Len(futures) : ~Running(w)
    /\ pc \in {"post", "returned"} => \A w \in 1..Len(futures) : futures[w].state = "done"
    /\ (mode = "save" /\ pc # "returned") => file = <<>>
    /\ (mode = "load" /\ pc # "returned") => dump = <<>>

\* A call that raised the failure of its first task, which ended before any
\* other task did: the call waited for the others.
C7_Witness ==
    /\ pc = "raised"
    /\ Len(futures) >= 2
    /\ futures[1].state = "failed"
    /\ finished[1] = 1
    /\ Len(finished) = Len(futures)

====
